---- MODULE Spec2Model ----
(***************************************************************************)
(* Refresh-token lifecycle of the Apple/Google OAuth backend: the JWT      *)
(* TokenService (pkg/jwt/token.go), the durable refresh_tokens table       *)
(* (internal/repository TokenRepository) and AuthService's sign-in and     *)
(* refresh-rotation workflows (internal/service/auth_service.go).          *)
(*                                                                         *)
(* The sign-in workflow proper -- the handler, the Apple and Google        *)
(* identity-token verifiers with their key caches, and the users table --  *)
(* is specified apart, as SignInSpec; StoreSpec exercises the token        *)
(* repository's StoreRefreshToken on its own.  The Redis repositories     *)
(* (pkg/redis) are specified as RateLimitSpec, MirrorSpec and DeleteSpec,  *)
(* the key function of the verifiers under concurrent calls as KeySpec,    *)
(* and the calls that wait on a network peer as NetSpec.                   *)
(*                                                                         *)
(* Time is counted in ticks, TicksPerSec ticks to the second.  time.Now()  *)
(* and the database's CURRENT_TIMESTAMP both read the variable now; JWT    *)
(* NumericDate values are whole seconds (jwt.NewNumericDate truncates).    *)
(***************************************************************************)
EXTENDS Integers, FiniteSets, Sequences, TLC

\* ---------------------------------------------------------------- bounds
TicksPerSec == 2
MaxAdvances == 3
MaxIssued == 4
MaxUserID == 1
NumCalls == 2
MaxElapses == 2

\* ------------------------------------------------------------ time units
Second == TicksPerSec
Hour == 60 * 60 * Second
AccessTokenHours == 24
RefreshTokenDays == 7
AccessDuration == AccessTokenHours * Hour
RefreshDuration == RefreshTokenDays * 24 * Hour

\* The steps by which the clock may advance between two requests: a tick,
\* the life of an access token, and the life of a refresh token less one
\* tick (the instant before a token minted on a whole second expires).
Advances == {1, AccessDuration, RefreshDuration - 1}

\* ------------------------------------------------------------ the users
UserIDs == 1..MaxUserID
AppleIDOf(u) == <<"apple_id", u>>
EmailOf(u) == <<"email", u>>

Calls == 1..NumCalls

NULL == -1
NoToken == [none |-> TRUE]

\* What a RefreshAccessToken call returned.
Failure(step, err) == [ok |-> FALSE, step |-> step, err |-> err]
Success == [ok |-> TRUE, step |-> "return", err |-> ""]
NoResult == [ok |-> FALSE, step |-> "none", err |-> ""]

VARIABLES
    now,             \* the wall clock, in ticks
    advances,        \* how many times the clock has been advanced
    refresh_tokens,  \* the rows of table refresh_tokens
    issued,          \* the token strings handed out to clients so far
    pc,              \* pc[c]: where RefreshAccessToken call c stands
    req,             \* req[c]: the refresh token call c was given
    claims,          \* claims[c]: the claims parsed from req[c]
    userID,          \* userID[c]: the user id the store returned
    tokenPair,       \* tokenPair[c]: the pair minted by call c
    result,          \* result[c]: what call c returned
    rotated,         \* refresh tokens for which a refresh returned a pair
    late,            \* late[c]: call c began after req[c] had been rotated
    revokedAll,      \* users whose tokens were all revoked, no sign-in since
    users,           \* the rows of table users
    nextUserID,      \* the next value of the users.id sequence (BIGSERIAL)
    verifier,        \* verifier[p]: keys and lastFetch of provider p's Verifier
    redis,           \* the Redis keyspace: entries key, value, expiry
    signPc,          \* signPc[c]: where sign-in call c stands
    signReq,         \* signReq[c]: the sign-in request, stamped with its time
    signClaims,      \* signClaims[c]: the claims VerifyIDToken returned
    signUser,        \* signUser[c]: the model.User CreateOrGet returned
    signPair,        \* signPair[c]: the pair minted for sign-in call c
    signResult,      \* signResult[c]: what the AuthService method returned
    signResp,        \* signResp[c]: the sign-in response it built
    http,            \* http[c]: the HTTP reply of AuthHandler.SignInWithApple
    effects,         \* effects[c]: what sign-in call c has written so far
    lastStore,       \* the last direct StoreRefreshToken call and its outcome
    rclock,          \* the clock of Redis and of its clients, in ms
    rateCall,        \* rateCall[c]: where incrementRequest call c stands
    del,             \* the DeleteAllUserTokens call: cursor, iteration, result
    lastCmd,         \* the last single-command Redis call and its outcome
    keyCall,         \* keyCall[c]: where call c stands in the key function
    mu,              \* mu[p]: the sync.RWMutex of provider p's Verifier
    net              \* net[c]: the network call c waits on

vars == <<now, advances, refresh_tokens, issued, pc, req, claims, userID,
          tokenPair, result, rotated, late, revokedAll, users, nextUserID,
          verifier,
          redis, signPc, signReq, signClaims, signUser, signPair, signResult,
          signResp, http, effects, lastStore, rclock, rateCall, del,
          lastCmd, keyCall, mu, net>>

callVars == <<pc, req, claims, userID, tokenPair, result, late>>

\* The state of the refresh-rotation calls, which sign-in never touches.
rotationVars == <<pc, req, claims, userID, tokenPair, result, late, rotated,
                  revokedAll>>

\* The state of the sign-in calls and of what only sign-in uses.
signCallVars == <<signPc, signReq, signClaims, signUser, signPair,
                  signResult, signResp, http, effects>>
signInVars == <<users, nextUserID, verifier, redis, signCallVars>>

\* The state of the Redis repositories' calls (the keyspace itself is
\* redis), of concurrent key-function calls, and of network calls; the
\* workflows of the service touch none of it.
cacheVars == <<rclock, rateCall, del, lastCmd>>
sideVars == <<cacheVars, keyCall, mu, net>>

\* Everything the token lifecycle above leaves alone.
otherVars == <<signInVars, lastStore, sideVars>>

\* ------------------------------------------------------- pkg/jwt/token.go
\* A signed token string: header (alg), payload and the key that signed it.
SignedString(alg, key, payload) ==
    [alg |-> alg, key |-> key, payload |-> payload]

\* generateToken with the expiry claim stamped with the time of issue.
generateTokenExpNow(uid, appleID, email, tokenType, duration) ==
    [token     |-> SignedString("HS256", "secretKey",
                      [user_id    |-> uid,
                       apple_id   |-> appleID,
                       email      |-> email,
                       token_type |-> tokenType,
                       exp        |-> now \div TicksPerSec,
                       iat        |-> now \div TicksPerSec,
                       nbf        |-> now \div TicksPerSec,
                       iss        |-> "apple-oauth-backend"]),
     expiresAt |-> now + duration]

\* generateToken: claims stamped with time.Now(), signed HS256 with the
\* service's secret key.  Returns the token and the untruncated expiry.
generateToken(uid, appleID, email, tokenType, duration) ==
    LET expiresAt == now + duration
        tokenClaims == [user_id    |-> uid,
                        apple_id   |-> appleID,
                        email      |-> email,
                        token_type |-> tokenType,
                        exp        |-> expiresAt \div TicksPerSec,
                        iat        |-> now \div TicksPerSec,
                        nbf        |-> now \div TicksPerSec,
                        iss        |-> "apple-oauth-backend"]
    IN  [token     |-> SignedString("HS256", "secretKey", tokenClaims),
         expiresAt |-> expiresAt]

GenerateTokenPair(uid, appleID, email) ==
    LET access  == generateToken(uid, appleID, email, "access", AccessDuration)
        refresh == generateToken(uid, appleID, email, "refresh", RefreshDuration)
    IN  [AccessToken           |-> access.token,
         RefreshToken          |-> refresh.token,
         AccessTokenExpiresAt  |-> access.expiresAt,
         RefreshTokenExpiresAt |-> refresh.expiresAt]

HMACMethods == {"HS256", "HS384", "HS512"}

\* ValidateToken that also wants a live refresh record of the token's user.
ValidateTokenChecksStore(tok) ==
    IF tok.alg \notin HMACMethods
        THEN [ok |-> FALSE, err |-> "unexpected signing method"]
    ELSE IF tok.key # "secretKey"
        THEN [ok |-> FALSE, err |-> "signature is invalid"]
    ELSE IF ~(now < tok.payload.exp * TicksPerSec)
        THEN [ok |-> FALSE, err |-> "token is expired"]
    ELSE IF ~(now >= tok.payload.nbf * TicksPerSec)
        THEN [ok |-> FALSE, err |-> "token is not valid yet"]
    ELSE IF ~\E r \in refresh_tokens :
                r.user_id = tok.payload.user_id /\ r.revoked_at < 0
        THEN [ok |-> FALSE, err |-> "session revoked"]
    ELSE [ok |-> TRUE, err |-> "", claims |-> tok.payload]

\* ValidateToken: the key function accepts HMAC methods only, the signature
\* must be made with the secret key, and the registered claims must hold at
\* time.Now(): now < exp and nbf <= now.
ValidateToken(tok) ==
    IF tok.alg \notin HMACMethods
        THEN [ok |-> FALSE, err |-> "unexpected signing method"]
    ELSE IF tok.key # "secretKey"
        THEN [ok |-> FALSE, err |-> "signature is invalid"]
    ELSE IF ~(now < tok.payload.exp * TicksPerSec)
        THEN [ok |-> FALSE, err |-> "token is expired"]
    ELSE IF ~(now >= tok.payload.nbf * TicksPerSec)
        THEN [ok |-> FALSE, err |-> "token is not valid yet"]
    ELSE [ok |-> TRUE, err |-> "", claims |-> tok.payload]

ValidateRefreshToken(tok) ==
    LET v == ValidateToken(tok)
    IN  IF ~v.ok THEN v
        ELSE IF v.claims.token_type # "refresh"
            THEN [ok |-> FALSE, err |-> "token is not a refresh token"]
        ELSE v

\* ------------------------------ internal/repository (token repository)
hashToken(tok) == <<"sha256", tok>>

RowsByHash(h) == {r \in refresh_tokens : r.token_hash = h}

\* INSERT INTO refresh_tokens: token_hash is UNIQUE, so the insert is
\* refused when a row with that hash exists.
InsertViolatesUnique(tok) == RowsByHash(hashToken(tok)) # {}

InsertRow(uid, tok, expiresAt) ==
    refresh_tokens \cup {[token_hash   |-> hashToken(tok),
                          user_id      |-> uid,
                          expires_at   |-> expiresAt,
                          revoked_at   |-> NULL,
                          last_used_at |-> NULL]}

\* ------------------------------------------- what a sign-in call holds
Providers == {"apple", "google"}

\* The nil value of a sign-in call's locals (request, claims, user, response).
Nil == [none |-> TRUE]
NoReply == [status |-> 0, error |-> "", message |-> ""]
NoStore == [called |-> FALSE]
\* A call that has not begun, and a mutex nobody holds.
Idle == [pc |-> "idle"]
Unlocked == [writer |-> 0]

\* ------------------------------------------------------------------ Init
Init ==
    /\ now = 0
    /\ advances = 0
    /\ refresh_tokens = {}
    /\ issued = {}
    /\ pc = [c \in Calls |-> "idle"]
    /\ req = [c \in Calls |-> NoToken]
    /\ claims = [c \in Calls |-> NoToken]
    /\ userID = [c \in Calls |-> 0]
    /\ tokenPair = [c \in Calls |-> NoToken]
    /\ result = [c \in Calls |-> NoResult]
    /\ rotated = {}
    /\ revokedAll = {}
    /\ late = [c \in Calls |-> FALSE]
    /\ users = {}
    /\ nextUserID = 1
    /\ verifier = [p \in Providers |-> [keys |-> {}, lastFetch |-> 0]]
    /\ redis = {}
    /\ signPc = [c \in Calls |-> "idle"]
    /\ signReq = [c \in Calls |-> Nil]
    /\ signClaims = [c \in Calls |-> Nil]
    /\ signUser = [c \in Calls |-> Nil]
    /\ signPair = [c \in Calls |-> NoToken]
    /\ signResult = [c \in Calls |-> NoResult]
    /\ signResp = [c \in Calls |-> Nil]
    /\ http = [c \in Calls |-> NoReply]
    /\ effects = [c \in Calls |-> {}]
    /\ lastStore = NoStore
    /\ rclock = 0
    /\ rateCall = [c \in Calls |-> Idle]
    /\ del = Idle
    /\ lastCmd = Idle
    /\ keyCall = [c \in Calls |-> Idle]
    /\ mu = [p \in Providers |-> Unlocked]
    /\ net = [c \in Calls |-> Idle]

InFlight == {c \in Calls : pc[c] \notin {"idle", "done"}}

\* The clock moves on.  Every statement a request sends to the database
\* runs under DefaultQueryTimeout (5 s), so a request in flight lasts
\* seconds: while one is in flight the clock moves by single ticks only.
AdvanceClock ==
    /\ advances < MaxAdvances
    /\ \E d \in (IF InFlight = {} THEN Advances ELSE {1}) : now' = now + d
    /\ advances' = advances + 1
    /\ UNCHANGED <<refresh_tokens, issued, rotated, revokedAll>>
    /\ UNCHANGED callVars
    /\ UNCHANGED otherVars

\* Room for one more token pair to be minted and handed out.
Minting == {c \in Calls : pc[c] = "store"}
CanIssue == Cardinality(issued) + 2 * Cardinality(Minting) + 2 <= MaxIssued

\* SignInWithApple / SignInWithGoogle after the identity token has been
\* verified and the user row fetched: mint a pair, store the refresh token.
SignIn(u) ==
    /\ CanIssue
    /\ LET pair == GenerateTokenPair(u, AppleIDOf(u), EmailOf(u))
       IN  \/ /\ ~InsertViolatesUnique(pair.RefreshToken)
              /\ refresh_tokens' = InsertRow(u, pair.RefreshToken,
                                             pair.RefreshTokenExpiresAt)
              /\ issued' = issued \cup {pair.AccessToken, pair.RefreshToken}
              /\ revokedAll' = revokedAll \ {u}
           \/ \* the insert failed: "failed to store refresh token"
              /\ UNCHANGED <<refresh_tokens, issued, revokedAll>>
    /\ UNCHANGED <<now, advances, rotated>>
    /\ UNCHANGED callVars
    /\ UNCHANGED otherVars

\* What clients (and attackers) can present: every token handed out, and
\* copies of them re-signed with another key or with the signature stripped.
Resigned(tok) == [tok EXCEPT !.key = "attackerKey"]
Unsigned(tok) == [tok EXCEPT !.alg = "none", !.key = "nokey"]
IssuedRefresh == {t \in issued : t.payload.token_type = "refresh"}
Presentable == issued \cup {Resigned(t) : t \in IssuedRefresh}
                      \cup {Unsigned(t) : t \in IssuedRefresh}

\* Call c returns the error r; its locals are dropped.
Return(c, r) ==
    /\ pc' = [pc EXCEPT ![c] = "done"]
    /\ result' = [result EXCEPT ![c] = r]
    /\ tokenPair' = [tokenPair EXCEPT ![c] = NoToken]

\* RefreshAccessToken, first statement: the JWT validation of the request.
RefreshBegin(c, tok) ==
    /\ pc[c] = "idle"
    /\ req' = [req EXCEPT ![c] = tok]
    /\ late' = [late EXCEPT ![c] = tok \in rotated]
    /\ UNCHANGED userID
    /\ LET v == ValidateRefreshToken(tok)
       IN  IF v.ok
             THEN /\ claims' = [claims EXCEPT ![c] = v.claims]
                  /\ pc' = [pc EXCEPT ![c] = "validate"]
                  /\ result' = [result EXCEPT ![c] = NoResult]
                  /\ tokenPair' = [tokenPair EXCEPT ![c] = NoToken]
             ELSE /\ claims' = [claims EXCEPT ![c] = NoToken]
                  /\ Return(c, Failure("jwt", v.err))
    /\ UNCHANGED <<now, advances, refresh_tokens, issued, rotated,
                   revokedAll>>
    /\ UNCHANGED otherVars

\* The row checks without the revoked_at check.
SelectVerdictNoRevokedCheck(h) ==
    IF RowsByHash(h) = {} THEN "refresh token not found"
    ELSE LET r == CHOOSE r \in RowsByHash(h) : TRUE
         IN  IF now > r.expires_at THEN "refresh token has expired"
             ELSE ""

\* The row checks with the expiry check ahead of the revoked_at check.
SelectVerdictExpiryFirst(h) ==
    IF RowsByHash(h) = {} THEN "refresh token not found"
    ELSE LET r == CHOOSE r \in RowsByHash(h) : TRUE
         IN  IF now > r.expires_at THEN "refresh token has expired"
             ELSE IF r.revoked_at # NULL THEN "refresh token has been revoked"
             ELSE ""

\* TokenRepository.ValidateRefreshToken, from the SELECT by token hash to
\* the checks on the row it returned: the error, or "" when the row passes.
SelectVerdict(h) ==
    IF RowsByHash(h) = {} THEN "refresh token not found"
    ELSE LET r == CHOOSE r \in RowsByHash(h) : TRUE
         IN  IF r.revoked_at # NULL THEN "refresh token has been revoked"
             ELSE IF now > r.expires_at THEN "refresh token has expired"
             ELSE ""

SelectedUserID(h) == (CHOOSE r \in RowsByHash(h) : TRUE).user_id

ValidateSelect(c) ==
    /\ pc[c] = "validate"
    /\ \/ Return(c, Failure("validate", "failed to validate refresh token"))
          /\ UNCHANGED userID
       \/ LET h == hashToken(req[c])
          IN  IF SelectVerdict(h) # ""
                THEN /\ Return(c, Failure("validate", SelectVerdict(h)))
                     /\ UNCHANGED userID
                ELSE /\ userID' = [userID EXCEPT ![c] = SelectedUserID(h)]
                     /\ pc' = [pc EXCEPT ![c] = "touch"]
                     /\ UNCHANGED <<result, tokenPair>>
    /\ UNCHANGED <<now, advances, refresh_tokens, issued, rotated,
                   revokedAll, req, claims, late>>
    /\ UNCHANGED otherVars

\* The update setting revoked_at along with last_used_at.
TouchedAndRevoked(h) ==
    {IF r.token_hash = h
        THEN [r EXCEPT !.last_used_at = now, !.revoked_at = now] ELSE r
        : r \in refresh_tokens}

\* UPDATE refresh_tokens SET last_used_at = CURRENT_TIMESTAMP WHERE token_hash
Touched(h) ==
    {IF r.token_hash = h THEN [r EXCEPT !.last_used_at = now] ELSE r
        : r \in refresh_tokens}

\* ValidateRefreshToken's second statement, the last_used_at update (its
\* error is ignored), its return, and the caller's user-id comparison.
ValidateTouch(c) ==
    /\ pc[c] = "touch"
    /\ \/ refresh_tokens' = Touched(hashToken(req[c]))
       \/ UNCHANGED refresh_tokens
    /\ IF userID[c] # claims[c].user_id
         THEN Return(c, Failure("mismatch", "user ID mismatch"))
         ELSE /\ pc' = [pc EXCEPT ![c] = "revoke"]
              /\ UNCHANGED <<result, tokenPair>>
    /\ UNCHANGED <<now, advances, issued, rotated, revokedAll,
                   req, claims, userID, late>>
    /\ UNCHANGED otherVars

\* The revoke's WHERE clause without "AND revoked_at IS NULL".
RevokeMatchesAnyRow(h) == {r \in refresh_tokens : r.token_hash = h}

\* UPDATE refresh_tokens SET revoked_at = CURRENT_TIMESTAMP
\* WHERE token_hash = $1 AND revoked_at IS NULL
RevokeMatches(h) ==
    {r \in refresh_tokens : r.token_hash = h /\ r.revoked_at = NULL}

\* The revoke setting last_used_at in place of revoked_at.
RevokedTouchOnly(h) ==
    {IF r.token_hash = h /\ r.revoked_at = NULL
        THEN [r EXCEPT !.last_used_at = now] ELSE r : r \in refresh_tokens}

Revoked(h) ==
    {IF r \in RevokeMatches(h) THEN [r EXCEPT !.revoked_at = now] ELSE r
        : r \in refresh_tokens}

\* TokenRepository.RevokeRefreshToken as called by RefreshAccessToken.
RevokeRefreshToken(c) ==
    /\ pc[c] = "revoke"
    /\ \/ /\ Return(c, Failure("revoke", "failed to revoke refresh token"))
          /\ UNCHANGED refresh_tokens
       \/ IF RevokeMatches(hashToken(req[c])) = {}
            THEN /\ Return(c, Failure("revoke",
                             "refresh token not found or already revoked"))
                 /\ UNCHANGED refresh_tokens
            ELSE /\ refresh_tokens' = Revoked(hashToken(req[c]))
                 /\ pc' = [pc EXCEPT ![c] = "generate"]
                 /\ UNCHANGED <<result, tokenPair>>
    /\ UNCHANGED <<now, advances, issued, rotated, revokedAll,
                   req, claims, userID, late>>
    /\ UNCHANGED otherVars

\* RefreshAccessToken mints the new pair from the old token's claims.
GenerateNewPair(c) ==
    /\ pc[c] = "generate"
    /\ CanIssue
    /\ tokenPair' = [tokenPair EXCEPT ![c] =
           GenerateTokenPair(claims[c].user_id, claims[c].apple_id,
                             claims[c].email)]
    /\ pc' = [pc EXCEPT ![c] = "store"]
    /\ UNCHANGED <<now, advances, refresh_tokens, issued, rotated,
                   revokedAll, req, claims, userID, result, late>>
    /\ UNCHANGED otherVars

\* RefreshAccessToken stores the new refresh token and returns the pair.
StoreNewToken(c) ==
    /\ pc[c] = "store"
    /\ \/ /\ Return(c, Failure("store", "failed to store refresh token"))
          /\ UNCHANGED <<refresh_tokens, issued, rotated>>
       \/ IF InsertViolatesUnique(tokenPair[c].RefreshToken)
            THEN /\ Return(c, Failure("store", "duplicate token_hash"))
                 /\ UNCHANGED <<refresh_tokens, issued, rotated>>
            ELSE /\ refresh_tokens' = InsertRow(userID[c],
                                          tokenPair[c].RefreshToken,
                                          tokenPair[c].RefreshTokenExpiresAt)
                 /\ issued' = issued \cup {tokenPair[c].AccessToken,
                                           tokenPair[c].RefreshToken}
                 /\ rotated' = rotated \cup {req[c]}
                 /\ pc' = [pc EXCEPT ![c] = "done"]
                 /\ result' = [result EXCEPT ![c] = Success]
                 /\ UNCHANGED tokenPair
    /\ UNCHANGED <<now, advances, req, claims, userID, late, revokedAll>>
    /\ UNCHANGED otherVars

\* UPDATE refresh_tokens SET revoked_at = CURRENT_TIMESTAMP
\* WHERE user_id = $1 AND revoked_at IS NULL
RevokeAllUserTokens(u) ==
    /\ \E r \in refresh_tokens : r.user_id = u
    /\ refresh_tokens' =
           {IF r.user_id = u /\ r.revoked_at = NULL
               THEN [r EXCEPT !.revoked_at = now] ELSE r : r \in refresh_tokens}
    /\ revokedAll' = revokedAll \cup {u}
    /\ UNCHANGED <<now, advances, issued, rotated>>
    /\ UNCHANGED callVars
    /\ UNCHANGED otherVars

\* DELETE FROM refresh_tokens WHERE expires_at < CURRENT_TIMESTAMP
CleanupExpiredTokens ==
    /\ \E r \in refresh_tokens : r.expires_at < now
    /\ refresh_tokens' = {r \in refresh_tokens : ~(r.expires_at < now)}
    /\ UNCHANGED <<now, advances, issued, rotated, revokedAll>>
    /\ UNCHANGED callVars
    /\ UNCHANGED otherVars

Next ==
    \/ AdvanceClock
    \/ \E u \in UserIDs : SignIn(u)
    \/ \E c \in Calls : \E tok \in Presentable : RefreshBegin(c, tok)
    \/ \E c \in Calls : ValidateSelect(c)
    \/ \E c \in Calls : ValidateTouch(c)
    \/ \E c \in Calls : RevokeRefreshToken(c)
    \/ \E c \in Calls : GenerateNewPair(c)
    \/ \E c \in Calls : StoreNewToken(c)
    \/ \E u \in UserIDs : RevokeAllUserTokens(u)
    \/ CleanupExpiredTokens

Spec == Init /\ [][Next]_vars

\* ============================================ the identity verifiers
\* pkg/apple/verifier.go and pkg/google/verifier.go.  An identity token is
\* modelled by its number of dot-separated parts, its header (alg, kid), the
\* key pair that made its signature (named by the key id of its public
\* half) and its payload.  A JSON value of the payload keeps its JSON type.
appleIssuer == "https://appleid.apple.com"
googleIssuer1 == "https://accounts.google.com"
googleIssuer2 == "accounts.google.com"
Issuers(p) ==
    IF p = "apple" THEN {appleIssuer} ELSE {googleIssuer1, googleIssuer2}

\* The client ids the two verifiers are constructed with.
ClientID(p) ==
    IF p = "apple" THEN "com.example.app"
                   ELSE "example.apps.googleusercontent.com"

KeyCacheHours == 24
KeyCacheTTL == KeyCacheHours * Hour

\* The algorithms whose jwt.SigningMethod is a *jwt.SigningMethodRSA.
RSAMethods == {"RS256", "RS384", "RS512"}

\* What the provider's key endpoint serves: key id -> public key.
Kid(p) == IF p = "apple" THEN "appleKid" ELSE "googleKid"
PublishedKeys(p) == {Kid(p)}

JSONString(s) == <<"string", s>>
JSONBool(b) == <<"bool", b>>
JSONAbsent == <<"absent", "">>

IDToken(alg, kid, key, payload) ==
    [parts |-> 3, alg |-> alg, kid |-> kid, key |-> key, payload |-> payload]

\* json.Unmarshal of the payload into AppleClaims, whose EmailVerified is a
\* Go string: a JSON boolean does not decode; an absent member leaves "".
AppleClaimsDecode(payload) == payload.email_verified[1] # "bool"
AppleEmailVerified(payload) ==
    IF payload.email_verified[1] = "string" THEN payload.email_verified[2]
                                            ELSE ""

\* json.Unmarshal of the payload into GoogleClaims, whose EmailVerified is a
\* Go bool: a JSON string does not decode; an absent member leaves false.
GoogleClaimsDecode(payload) == payload.email_verified[1] # "string"
GoogleEmailVerified(payload) == payload.email_verified = JSONBool("true")

\* A staleness test that sends every call to the key endpoint.
NeedsRefreshAlways(cache) == TRUE

\* refreshKeysIfNeeded's test: the cache is stale or empty.
NeedsRefresh(cache) ==
    ~(now - cache.lastFetch < KeyCacheTTL /\ cache.keys # {})

\* refreshKeysIfNeeded and fetchPublicKeys; fetched tells whether the GET of
\* the key endpoint came back with status 200 and a decodable key set.
refreshKeysIfNeeded(p, cache, fetched) ==
    IF ~NeedsRefresh(cache) THEN [err |-> "", cache |-> cache]
    ELSE IF ~fetched THEN [err |-> "failed to fetch keys", cache |-> cache]
    ELSE [err |-> "",
          cache |-> [keys |-> PublishedKeys(p), lastFetch |-> now]]

\* The key function handed to jwt.ParseWithClaims (the same in both
\* verifiers): method type, kid, key refresh, key lookup.
KeyFunc(p, tok, cache, fetched) ==
    IF tok.alg \notin RSAMethods
        THEN [err |-> "unexpected signing method", cache |-> cache]
    ELSE IF tok.kid = ""
        THEN [err |-> "kid not found in token header", cache |-> cache]
    ELSE LET r == refreshKeysIfNeeded(p, cache, fetched)
         IN  IF r.err # ""
                 THEN [err |-> "failed to fetch public keys", cache |-> cache]
             ELSE IF tok.kid \notin r.cache.keys
                 THEN [err |-> "public key not found for kid",
                       cache |-> r.cache]
             ELSE [err |-> "", cache |-> r.cache]

\* jwt.ParseWithClaims: split and decode the token, call the key function,
\* verify the signature with the key it returned, validate exp if present.
ParseWithClaims(p, tok, decodes, cache, fetched) ==
    IF tok.parts # 3 \/ ~decodes
        THEN [err |-> "token is malformed", cache |-> cache]
    ELSE LET k == KeyFunc(p, tok, cache, fetched)
         IN  IF k.err # "" THEN k
             ELSE IF tok.key # tok.kid
                 THEN [err |-> "signature is invalid", cache |-> k.cache]
             ELSE IF tok.payload.exp # NULL
                       /\ ~(now < tok.payload.exp * TicksPerSec)
                 THEN [err |-> "token is expired", cache |-> k.cache]
             ELSE [err |-> "", cache |-> k.cache]

\* The Apple verifier's claim checks without the nonce comparison.
AppleClaimChecksNoNonce(payload, expectedNonce) ==
    IF payload.iss # appleIssuer THEN "invalid issuer"
    ELSE IF ClientID("apple") \notin payload.aud THEN "invalid audience"
    ELSE IF payload.exp = NULL \/ ~(now < payload.exp * TicksPerSec)
        THEN "token expired"
    ELSE ""

\* apple.Verifier.VerifyIDToken after the parse: issuer, audience, expiry
\* (required), and the nonce when the caller gave one.
AppleClaimChecks(payload, expectedNonce) ==
    IF payload.iss # appleIssuer THEN "invalid issuer"
    ELSE IF ClientID("apple") \notin payload.aud THEN "invalid audience"
    ELSE IF payload.exp = NULL \/ ~(now < payload.exp * TicksPerSec)
        THEN "token expired"
    ELSE IF expectedNonce # "" /\ payload.nonce # expectedNonce
        THEN "nonce mismatch"
    ELSE ""

AppleVerifyIDToken(idToken, expectedNonce, cache, fetched) ==
    LET parsed == ParseWithClaims("apple", idToken,
                      AppleClaimsDecode(idToken.payload), cache, fetched)
        check == AppleClaimChecks(idToken.payload, expectedNonce)
    IN  IF parsed.err # ""
            THEN [ok |-> FALSE, err |-> parsed.err, claims |-> Nil,
                  cache |-> parsed.cache]
        ELSE IF check # ""
            THEN [ok |-> FALSE, err |-> check, claims |-> Nil,
                  cache |-> parsed.cache]
        ELSE [ok |-> TRUE, err |-> "", cache |-> parsed.cache,
              claims |-> [Subject       |-> idToken.payload.sub,
                          Email         |-> idToken.payload.email,
                          EmailVerified |-> AppleEmailVerified(idToken.payload),
                          Nonce         |-> idToken.payload.nonce]]

\* google.Verifier.VerifyIDToken after the parse: one of the two issuers,
\* audience, expiry (required), and email_verified.
GoogleClaimChecks(payload) ==
    IF payload.iss # googleIssuer1 /\ payload.iss # googleIssuer2
        THEN "invalid issuer"
    ELSE IF ClientID("google") \notin payload.aud THEN "invalid audience"
    ELSE IF payload.exp = NULL \/ payload.exp * TicksPerSec < now
        THEN "token expired"
    ELSE IF ~GoogleEmailVerified(payload) THEN "email not verified by Google"
    ELSE ""

GoogleVerifyIDToken(idToken, cache, fetched) ==
    LET parsed == ParseWithClaims("google", idToken,
                      GoogleClaimsDecode(idToken.payload), cache, fetched)
        check == GoogleClaimChecks(idToken.payload)
    IN  IF parsed.err # ""
            THEN [ok |-> FALSE, err |-> parsed.err, claims |-> Nil,
                  cache |-> parsed.cache]
        ELSE IF check # ""
            THEN [ok |-> FALSE, err |-> check, claims |-> Nil,
                  cache |-> parsed.cache]
        ELSE [ok |-> TRUE, err |-> "", cache |-> parsed.cache,
              claims |-> [Subject       |-> idToken.payload.sub,
                          Email         |-> idToken.payload.email,
                          EmailVerified |-> "true",
                          Nonce         |-> ""]]

\* ------------------------------------------------------- pkg/validator
MinAppleIDLen == 10
MaxIDLen == 255

\* The model's e-mail addresses that match emailRegex.
MatchesEmailRegex == {"a@x.com", "b@x.com"}

ValidateEmail(email) ==
    IF email = "" THEN "email is required"
    ELSE IF Len(email) > MaxIDLen THEN "email is too long"
    ELSE IF Len(email) < 3 THEN "email is too short"
    ELSE IF email \notin MatchesEmailRegex THEN "invalid email format"
    ELSE ""

ValidateAppleID(appleID) ==
    IF appleID = "" THEN "apple_id is required"
    ELSE IF Len(appleID) > MaxIDLen THEN "apple_id is too long"
    ELSE IF Len(appleID) < MinAppleIDLen THEN "apple_id is too short"
    ELSE ""

\* The check CreateOrGetWithGoogle makes on the Google id.
ValidateGoogleID(googleID) ==
    IF googleID = "" THEN "google_id cannot be empty" ELSE ""

\* ------------------------------ internal/repository (user repository)
\* Table users: id BIGSERIAL, apple_id UNIQUE, google_id UNIQUE (both
\* nullable), email UNIQUE.  SQLNull is the SQL NULL of a text column.
SQLNull == "<NULL>"

UserRow(id, appleID, googleID, email) ==
    [id |-> id, apple_id |-> appleID, google_id |-> googleID, email |-> email]

UniqueViolation == "duplicate key value violates unique constraint"
ScanNull == "cannot scan NULL into *string"
Unavailable == "database unavailable"

\* INSERT INTO users (apple_id, email) VALUES ($1, $2)
\* ON CONFLICT (email) DO UPDATE
\*     SET apple_id = COALESCE(users.apple_id, EXCLUDED.apple_id)
\* RETURNING ...: the error, the table afterwards and the row returned.
UpsertByEmailApple(appleID, email) ==
    LET byEmail == {u \in users : u.email = email}
        taken   == \E u \in users : u.apple_id = appleID /\ u.email # email
    IN  IF byEmail = {}
          THEN IF taken
                 THEN [err |-> UniqueViolation, rows |-> users, row |-> Nil]
                 ELSE LET new == UserRow(nextUserID, appleID, SQLNull, email)
                      IN  [err |-> "", rows |-> users \cup {new}, row |-> new]
          ELSE LET old == CHOOSE u \in byEmail : TRUE
                   new == IF old.apple_id = SQLNull
                            THEN [old EXCEPT !.apple_id = appleID] ELSE old
               IN  IF old.apple_id = SQLNull /\ taken
                     THEN [err |-> UniqueViolation, rows |-> users,
                           row |-> Nil]
                     ELSE [err |-> "", rows |-> (users \ {old}) \cup {new},
                           row |-> new]

\* INSERT INTO users (google_id, email) VALUES ($1, $2)
\* ON CONFLICT (email) DO UPDATE
\*     SET google_id = COALESCE(users.google_id, EXCLUDED.google_id)
\* RETURNING ...
UpsertByEmailGoogle(googleID, email) ==
    LET byEmail == {u \in users : u.email = email}
        taken   == \E u \in users : u.google_id = googleID /\ u.email # email
    IN  IF byEmail = {}
          THEN IF taken
                 THEN [err |-> UniqueViolation, rows |-> users, row |-> Nil]
                 ELSE LET new == UserRow(nextUserID, SQLNull, googleID, email)
                      IN  [err |-> "", rows |-> users \cup {new}, row |-> new]
          ELSE LET old == CHOOSE u \in byEmail : TRUE
                   new == IF old.google_id = SQLNull
                            THEN [old EXCEPT !.google_id = googleID] ELSE old
               IN  IF old.google_id = SQLNull /\ taken
                     THEN [err |-> UniqueViolation, rows |-> users,
                           row |-> Nil]
                     ELSE [err |-> "", rows |-> (users \ {old}) \cup {new},
                           row |-> new]

\* Row.Scan of the returned row into model.User, whose AppleID and GoogleID
\* are Go strings: pgx refuses to scan a NULL into a *string.
ScanUser(row) ==
    IF row.apple_id = SQLNull \/ row.google_id = SQLNull
      THEN [err |-> ScanNull, user |-> Nil]
      ELSE [err  |-> "",
            user |-> [ID |-> row.id, AppleID |-> row.apple_id,
                      GoogleID |-> row.google_id, Email |-> row.email]]

\* ------------------------------ internal/handler, internal/service
\* The handler's reply to every error of the service.
AuthenticationFailedVerbose(err) ==
    [status |-> 401, error |-> "authentication_failed", message |-> err]

AuthenticationFailed(err) ==
    [status  |-> 401,
     error   |-> "authentication_failed",
     message |-> "Invalid or expired token"]

\* The handler's reply when the request body does not bind.
InvalidRequest(err) ==
    [status |-> 400, error |-> "invalid_request", message |-> err]

StatusOK == [status |-> 200, error |-> "", message |-> ""]

SignInFlight == {c \in Calls : signPc[c] \notin {"idle", "done"}}

\* The clock moves on between and during sign-ins, MaxElapses times: by a
\* tick, or, while no sign-in is in flight, by the life of the key cache.
Elapse ==
    /\ advances < MaxElapses
    /\ \E d \in (IF SignInFlight = {} THEN {1, KeyCacheTTL} ELSE {1}) :
           now' = now + d
    /\ advances' = advances + 1
    /\ UNCHANGED <<refresh_tokens, issued, lastStore>>
    /\ UNCHANGED signInVars
    /\ UNCHANGED rotationVars
    /\ UNCHANGED sideVars

\* ---------------------------------------- the requests clients can send
ShortSubject == "001.abc"
LongSubject == "001234.0123456789abcdef.0001"
GoogleSubject == "109876543210987654321"
Emails == {"a@x.com", "b@x.com"}

\* A well-formed assertion of provider p, signed RS256 by the provider's
\* published key and expiring with the next whole second.
Assertion(p, sub, email) ==
    IDToken("RS256", Kid(p), Kid(p),
        [iss   |-> IF p = "apple" THEN appleIssuer ELSE googleIssuer1,
         aud   |-> {ClientID(p)},
         exp   |-> (now \div TicksPerSec) + 1,
         sub   |-> sub,
         email |-> email,
         email_verified |-> IF p = "apple" THEN JSONString("true")
                                           ELSE JSONBool("true"),
         nonce |-> IF p = "apple" THEN "n1" ELSE ""])

BaseAssertion(p) ==
    Assertion(p, IF p = "apple" THEN LongSubject ELSE GoogleSubject, "a@x.com")

\* The base assertion with one thing about it changed.
Deviations(p) ==
    LET b == BaseAssertion(p)
    IN  {[b EXCEPT !.parts = 1],
         [b EXCEPT !.alg = "none", !.key = "nokey"],
         [b EXCEPT !.alg = "HS256"],
         [b EXCEPT !.alg = "RS384"],
         [b EXCEPT !.key = "attackerKid"],
         [b EXCEPT !.kid = "unknownKid", !.key = "unknownKid"],
         [b EXCEPT !.kid = ""],
         [b EXCEPT !.payload.iss = "https://evil.example.com"],
         [b EXCEPT !.payload.iss = googleIssuer2],
         [b EXCEPT !.payload.aud = {"other.client"}],
         [b EXCEPT !.payload.exp = now \div TicksPerSec],
         [b EXCEPT !.payload.exp = NULL],
         [b EXCEPT !.payload.nonce = "n2"]}
        \cup {[b EXCEPT !.payload.email_verified = v] :
                 v \in {JSONString("true"), JSONString("false"),
                        JSONBool("true"), JSONBool("false"), JSONAbsent}}

AppleTokens ==
    {Assertion("apple", s, e) : s \in {ShortSubject, LongSubject}, e \in Emails}
        \cup Deviations("apple")
GoogleTokens ==
    {Assertion("google", GoogleSubject, e) : e \in Emails}
        \cup Deviations("google")

SignInRequest(p, tok, nonce) ==
    [provider |-> p, id_token |-> tok, nonce |-> nonce, at |-> now]

AppleRequests ==
    {SignInRequest("apple", t, "n1") : t \in AppleTokens}
        \cup {SignInRequest("apple", BaseAssertion("apple"), "")}
GoogleRequests == {SignInRequest("google", t, "") : t \in GoogleTokens}

\* ------------------------------------------------- the sign-in calls
\* The service method of provider p returns the error err.  Only Apple
\* sign-in has a handler, which turns the error into its HTTP reply.
SignFail(c, p, step, err) ==
    /\ signPc' = [signPc EXCEPT ![c] = "done"]
    /\ signResult' = [signResult EXCEPT ![c] = Failure(step, err)]
    /\ http' = [http EXCEPT ![c] =
                   IF p = "apple" THEN AuthenticationFailed(err) ELSE NoReply]

\* AuthHandler.SignInWithApple binds the request and calls
\* AuthService.SignInWithApple, which verifies the identity token and then
\* wants email_verified to be "true".
AppleSignInBegin(c, r) ==
    /\ signPc[c] = "idle"
    /\ signReq' = [signReq EXCEPT ![c] = r]
    /\ IF r.nonce = ""
         THEN /\ signPc' = [signPc EXCEPT ![c] = "done"]
              /\ http' = [http EXCEPT ![c] =
                     InvalidRequest("Field validation for 'Nonce' failed")]
              /\ UNCHANGED <<signResult, signClaims, verifier>>
         ELSE \E fetched \in BOOLEAN :
                LET v == AppleVerifyIDToken(r.id_token, r.nonce,
                                            verifier["apple"], fetched)
                IN  /\ verifier' = [verifier EXCEPT !["apple"] = v.cache]
                    /\ signClaims' = [signClaims EXCEPT ![c] = v.claims]
                    /\ IF ~v.ok
                         THEN SignFail(c, "apple", "verify", v.err)
                       ELSE IF v.claims.EmailVerified # "true"
                         THEN SignFail(c, "apple", "email",
                                       "email not verified by Apple")
                       ELSE /\ signPc' = [signPc EXCEPT ![c] = "upsert"]
                            /\ UNCHANGED <<signResult, http>>
    /\ UNCHANGED <<signUser, signPair, signResp, effects>>
    /\ UNCHANGED <<users, nextUserID, redis>>
    /\ UNCHANGED <<now, advances, refresh_tokens, issued, lastStore>>
    /\ UNCHANGED rotationVars
    /\ UNCHANGED sideVars

\* AuthService.SignInWithGoogle verifies the identity token.
GoogleSignInBegin(c, r) ==
    /\ signPc[c] = "idle"
    /\ signReq' = [signReq EXCEPT ![c] = r]
    /\ \E fetched \in BOOLEAN :
         LET v == GoogleVerifyIDToken(r.id_token, verifier["google"], fetched)
         IN  /\ verifier' = [verifier EXCEPT !["google"] = v.cache]
             /\ signClaims' = [signClaims EXCEPT ![c] = v.claims]
             /\ IF ~v.ok
                  THEN SignFail(c, "google", "verify", v.err)
                  ELSE /\ signPc' = [signPc EXCEPT ![c] = "upsert"]
                       /\ UNCHANGED <<signResult, http>>
    /\ UNCHANGED <<signUser, signPair, signResp, effects>>
    /\ UNCHANGED <<users, nextUserID, redis>>
    /\ UNCHANGED <<now, advances, refresh_tokens, issued, lastStore>>
    /\ UNCHANGED rotationVars
    /\ UNCHANGED sideVars

\* The statement of an upsert has run with outcome q: the sequence has
\* handed out an id, the table is as the statement left it, and the row
\* returned is scanned into a model.User.
Upserted(c, p, q) ==
    /\ nextUserID' = nextUserID + 1
    /\ users' = q.rows
    /\ effects' = [effects EXCEPT ![c] =
                      IF q.rows # users THEN @ \cup {"users"} ELSE @]
    /\ IF q.err # ""
         THEN /\ SignFail(c, p, "upsert", q.err)
              /\ UNCHANGED signUser
       ELSE IF ScanUser(q.row).err # ""
         THEN /\ SignFail(c, p, "upsert", ScanUser(q.row).err)
              /\ UNCHANGED signUser
       ELSE /\ signUser' = [signUser EXCEPT ![c] = ScanUser(q.row).user]
            /\ signPc' = [signPc EXCEPT ![c] = "generate"]
            /\ UNCHANGED <<signResult, http>>

\* UserRepository.CreateOrGet as called by SignInWithApple.
AppleCreateOrGet(c) ==
    /\ signPc[c] = "upsert"
    /\ signReq[c].provider = "apple"
    /\ LET appleID == signClaims[c].Subject
           email   == signClaims[c].Email
       IN  IF ValidateAppleID(appleID) # ""
             THEN /\ SignFail(c, "apple", "upsert", ValidateAppleID(appleID))
                  /\ UNCHANGED <<users, nextUserID, signUser, effects>>
           ELSE IF ValidateEmail(email) # ""
             THEN /\ SignFail(c, "apple", "upsert", ValidateEmail(email))
                  /\ UNCHANGED <<users, nextUserID, signUser, effects>>
           ELSE \/ /\ SignFail(c, "apple", "upsert", Unavailable)
                   /\ UNCHANGED <<users, nextUserID, signUser, effects>>
                \/ Upserted(c, "apple", UpsertByEmailApple(appleID, email))
    /\ UNCHANGED <<signReq, signClaims, signPair, signResp>>
    /\ UNCHANGED <<verifier, redis>>
    /\ UNCHANGED <<now, advances, refresh_tokens, issued, lastStore>>
    /\ UNCHANGED rotationVars
    /\ UNCHANGED sideVars

\* UserRepository.CreateOrGetWithGoogle as called by SignInWithGoogle.
GoogleCreateOrGet(c) ==
    /\ signPc[c] = "upsert"
    /\ signReq[c].provider = "google"
    /\ LET googleID == signClaims[c].Subject
           email    == signClaims[c].Email
       IN  IF ValidateGoogleID(googleID) # ""
             THEN /\ SignFail(c, "google", "upsert", ValidateGoogleID(googleID))
                  /\ UNCHANGED <<users, nextUserID, signUser, effects>>
           ELSE IF ValidateEmail(email) # ""
             THEN /\ SignFail(c, "google", "upsert", ValidateEmail(email))
                  /\ UNCHANGED <<users, nextUserID, signUser, effects>>
           ELSE \/ /\ SignFail(c, "google", "upsert", Unavailable)
                   /\ UNCHANGED <<users, nextUserID, signUser, effects>>
                \/ Upserted(c, "google", UpsertByEmailGoogle(googleID, email))
    /\ UNCHANGED <<signReq, signClaims, signPair, signResp>>
    /\ UNCHANGED <<verifier, redis>>
    /\ UNCHANGED <<now, advances, refresh_tokens, issued, lastStore>>
    /\ UNCHANGED rotationVars
    /\ UNCHANGED sideVars

\* The provider id the service puts into the tokens and the response.
ProviderID(c) ==
    IF signReq[c].provider = "apple" THEN signUser[c].AppleID
                                     ELSE signUser[c].GoogleID

\* GenerateTokenPair(user.ID, user.AppleID or user.GoogleID, user.Email).
SignInGenerate(c) ==
    /\ signPc[c] = "generate"
    /\ signPair' = [signPair EXCEPT ![c] =
           GenerateTokenPair(signUser[c].ID, ProviderID(c), signUser[c].Email)]
    /\ signPc' = [signPc EXCEPT ![c] = "store"]
    /\ UNCHANGED <<signReq, signClaims, signUser, signResult, signResp,
                   http, effects>>
    /\ UNCHANGED <<users, nextUserID, verifier, redis>>
    /\ UNCHANGED <<now, advances, refresh_tokens, issued, lastStore>>
    /\ UNCHANGED rotationVars
    /\ UNCHANGED sideVars

\* The response of a sign-in that went through.
SignInResponse(c) ==
    [UserID       |-> signUser[c].ID,
     ProviderID   |-> ProviderID(c),
     Email        |-> signUser[c].Email,
     AccessToken  |-> signPair[c].AccessToken,
     RefreshToken |-> signPair[c].RefreshToken,
     TokenType    |-> "Bearer"]

\* TokenRepository.StoreRefreshToken as called by the sign-in methods, the
\* response they build and, for Apple, the handler's 200 reply.  The
\* service holds no Redis repository: nothing is written to Redis.
SignInStore(c) ==
    /\ signPc[c] = "store"
    /\ \/ /\ SignFail(c, signReq[c].provider, "store",
                      "failed to store refresh token")
          /\ UNCHANGED <<refresh_tokens, issued, signResp, effects>>
       \/ IF InsertViolatesUnique(signPair[c].RefreshToken)
            THEN /\ SignFail(c, signReq[c].provider, "store",
                             UniqueViolation)
                 /\ UNCHANGED <<refresh_tokens, issued, signResp, effects>>
            ELSE /\ refresh_tokens' = InsertRow(signUser[c].ID,
                                          signPair[c].RefreshToken,
                                          signPair[c].RefreshTokenExpiresAt)
                 /\ issued' = issued \cup {signPair[c].AccessToken,
                                           signPair[c].RefreshToken}
                 /\ effects' = [effects EXCEPT ![c] = @ \cup {"refresh_tokens"}]
                 /\ signResp' = [signResp EXCEPT ![c] = SignInResponse(c)]
                 /\ signResult' = [signResult EXCEPT ![c] = Success]
                 /\ signPc' = [signPc EXCEPT ![c] = "done"]
                 /\ http' = [http EXCEPT ![c] =
                        IF signReq[c].provider = "apple" THEN StatusOK
                                                         ELSE NoReply]
    /\ UNCHANGED <<signReq, signClaims, signUser, signPair>>
    /\ UNCHANGED <<users, nextUserID, verifier, redis>>
    /\ UNCHANGED <<now, advances, lastStore>>
    /\ UNCHANGED rotationVars
    /\ UNCHANGED sideVars

SignInNext ==
    \/ Elapse
    \/ \E c \in Calls : \E r \in AppleRequests : AppleSignInBegin(c, r)
    \/ \E c \in Calls : \E r \in GoogleRequests : GoogleSignInBegin(c, r)
    \/ \E c \in Calls : AppleCreateOrGet(c)
    \/ \E c \in Calls : GoogleCreateOrGet(c)
    \/ \E c \in Calls : SignInGenerate(c)
    \/ \E c \in Calls : SignInStore(c)

SignInSpec == Init /\ [][SignInNext]_vars

\* ======================================= StoreRefreshToken on its own
\* TokenRepository.StoreRefreshToken called with any user id, token and
\* expiry: the INSERT runs, or the database refuses or cannot be reached.
StoreTokens == {"tokenA", "tokenB"}
StoreExpiries == {e \in {now - 1, now, now + 1, now + RefreshDuration} : e >= 0}

StoreCall(u, tok, expiresAt, err, inserted) ==
    [called |-> TRUE, userID |-> u, token |-> tok, expiresAt |-> expiresAt,
     at |-> now, err |-> err, inserted |-> inserted]

StoreRefreshToken(u, tok, expiresAt) ==
    /\ \/ /\ lastStore' = StoreCall(u, tok, expiresAt,
                              "failed to store refresh token", FALSE)
          /\ UNCHANGED refresh_tokens
       \/ IF InsertViolatesUnique(tok)
            THEN /\ lastStore' = StoreCall(u, tok, expiresAt,
                                     "failed to store refresh token", FALSE)
                 /\ UNCHANGED refresh_tokens
            ELSE /\ refresh_tokens' = InsertRow(u, tok, expiresAt)
                 /\ lastStore' = StoreCall(u, tok, expiresAt, "", TRUE)
    /\ UNCHANGED <<now, advances, issued>>
    /\ UNCHANGED signInVars
    /\ UNCHANGED rotationVars
    /\ UNCHANGED sideVars

StoreNext ==
    \/ AdvanceClock
    \/ \E u \in UserIDs : \E tok \in StoreTokens : \E e \in StoreExpiries :
           StoreRefreshToken(u, tok, e)
    \/ CleanupExpiredTokens

StoreSpec == Init /\ [][StoreNext]_vars

\* ================================================================ claims

RowOf(tok) == RowsByHash(hashToken(tok))
IsRevokedRow(tok) == \E r \in RowOf(tok) : r.revoked_at # NULL
\* present, unrevoked and unexpired in the durable store
StoreValid(tok) ==
    \E r \in RowOf(tok) : r.revoked_at = NULL /\ ~(now > r.expires_at)
JWTExpired(tok) == ~(now < tok.payload.exp * TicksPerSec)

RevokedErrors == {"refresh token has been revoked",
                  "refresh token not found or already revoked"}
StorageErrors == {"failed to validate refresh token",
                  "failed to revoke refresh token",
                  "failed to store refresh token"}
Done(c) == pc[c] = "done"
PastRevoke(c) == pc[c] \in {"generate", "store"} \/ (Done(c) /\ result[c].ok)

\* C1 (as claimed): every RefreshAccessToken(t) begun after a refresh of t
\* returned a pair ends in a revoked/reuse error (storage outages aside).
C1_LaterRefreshIsRevokedError ==
    \A c \in Calls :
        (Done(c) /\ late[c] /\ result[c].err \notin StorageErrors)
            => (~result[c].ok /\ result[c].err \in RevokedErrors)

\* C1 (amended): every RefreshAccessToken(t) begun after a refresh of t
\* returned a pair never gets past store validation, issues no tokens and
\* ends in an error: a revoked/reuse error while t's JWT is unexpired; once
\* it has expired, that or the JWT "token is expired" error or, when cleanup
\* has deleted the expired record, "not found" (or a storage error).
C1_LaterRefreshFails ==
    \A c \in Calls :
        late[c] =>
            /\ pc[c] \in {"validate", "done"}
            /\ tokenPair[c] = NoToken
            /\ Done(c) =>
                 /\ ~result[c].ok
                 /\ \/ result[c].err \in RevokedErrors
                    \/ result[c].err \in StorageErrors
                    \/ result[c].err = "token is expired" /\ JWTExpired(req[c])
                    \/ /\ result[c].err = "refresh token not found"
                       /\ JWTExpired(req[c])
                       /\ RowOf(req[c]) = {}

\* C1 witness: a later refresh of a rotated token was refused as revoked.
C1_Witness ==
    \E c \in Calls :
        /\ late[c] /\ Done(c)
        /\ result[c].err = "refresh token has been revoked"

\* C2: of the calls that present the same refresh token at most one gets
\* past the revoke step and returns a pair; while the token is unexpired
\* every other call that returns (storage outages aside) returns a
\* revoked/reuse error.
C2_AtMostOneRotation ==
    \A c, d \in Calls :
        (c # d /\ pc[c] # "idle" /\ pc[d] # "idle" /\ req[c] = req[d]) =>
            /\ ~(PastRevoke(c) /\ PastRevoke(d))
            /\ (Done(c) /\ result[c].ok /\ Done(d)
                  /\ ~JWTExpired(req[d])
                  /\ result[d].err \notin StorageErrors)
                 => result[d].err \in RevokedErrors

\* C2 witness: two calls passed store validation with the same token; one
\* returned a pair, the other lost the revoke.
C2_Witness ==
    \E c, d \in Calls :
        /\ c # d /\ req[c] = req[d]
        /\ Done(c) /\ result[c].ok
        /\ Done(d) /\ result[d].step = "revoke"
        /\ result[d].err = "refresh token not found or already revoked"

\* C3: once a call has minted its new refresh token, the token it was
\* given and the new one are never both valid in the store; the new record
\* exists only with the old one revoked (or deleted as expired).
C3_OldAndNewNeverBothValid ==
    \A c \in Calls :
        tokenPair[c] # NoToken =>
            /\ ~(StoreValid(req[c]) /\ StoreValid(tokenPair[c].RefreshToken))
            /\ ~StoreValid(req[c])

\* C3 witness: a rotation completed, the new token is valid and the old
\* record is there, revoked.
C3_Witness ==
    \E c \in Calls :
        /\ Done(c) /\ result[c].ok
        /\ StoreValid(tokenPair[c].RefreshToken)
        /\ IsRevokedRow(req[c])
        /\ tokenPair[c].RefreshToken # req[c]

\* C4 (as claimed): whenever RefreshAccessToken has returned, pair or
\* error (storage outages aside), the record of the token it was given is
\* revoked.
C4_RevokedOnAnyResponse ==
    \A c \in Calls :
        (Done(c) /\ RowOf(req[c]) # {} /\ result[c].err \notin StorageErrors)
            => IsRevokedRow(req[c])

\* C4 (amended): whenever RefreshAccessToken has returned a pair, or an
\* error from the storing of the new token, the record of the token it was
\* given is revoked (or has been deleted as expired).
C4_RevokedOnResponseAfterRevoke ==
    \A c \in Calls :
        (Done(c) /\ (result[c].ok \/ result[c].step = "store")) =>
            (RowOf(req[c]) = {} \/ IsRevokedRow(req[c]))

\* C4 witness: a call failed while storing the new token, after it had
\* revoked the old one.
C4_Witness ==
    \E c \in Calls :
        /\ Done(c) /\ ~result[c].ok /\ result[c].step = "store"
        /\ IsRevokedRow(req[c])

\* C5 (as claimed): a freshly minted refresh token never collides with the
\* token hash of an existing record.
C5_FreshTokenNeverCollides ==
    \A c \in Calls :
        pc[c] = "store" => ~InsertViolatesUnique(tokenPair[c].RefreshToken)

\* C6 (as claimed): validation of one kind rejects tokens of the other:
\* ValidateToken rejects every unexpired refresh token and
\* ValidateRefreshToken rejects every access token.
C6_KindsNeverInterchange ==
    \A t \in issued :
        /\ t.payload.token_type = "refresh" => ~ValidateToken(t).ok
        /\ t.payload.token_type = "access" =>
               /\ ~ValidateRefreshToken(t).ok
               /\ ~JWTExpired(t) =>
                    ValidateRefreshToken(t).err = "token is not a refresh token"

C8_NoSuccessAfterRevoke ==
    [][\A c \in Calls :
          (pc[c] = "touch" /\ pc'[c] = "revoke") => ~IsRevokedRow(req[c])]_vars

\* C8 (amended): a store validation that reads the record after the token
\* was revoked fails with revoked (storage outages aside), and a revoked
\* record keeps its revoked_at until cleanup deletes it as expired.
C8_RevocationVisibleAndPermanent ==
    [][/\ \A c \in Calls :
            (pc[c] = "validate" /\ pc'[c] # "validate" /\ IsRevokedRow(req[c]))
                => /\ pc'[c] = "done"
                   /\ result'[c].err \in
                        {"refresh token has been revoked",
                         "failed to validate refresh token"}
       /\ \A r \in refresh_tokens :
            r.revoked_at # NULL =>
                \/ \E q \in refresh_tokens' :
                       /\ q.token_hash = r.token_hash
                       /\ q.revoked_at = r.revoked_at
                \/ /\ r.expires_at < now
                   /\ \A q \in refresh_tokens' : q.token_hash # r.token_hash
      ]_vars

\* C8 witness: a validation was refused as revoked at a time after the
\* revocation.
C8_Witness ==
    \E c \in Calls :
        /\ Done(c) /\ result[c].step = "validate"
        /\ result[c].err = "refresh token has been revoked"
        /\ \E r \in RowOf(req[c]) : r.revoked_at # NULL /\ r.revoked_at < now

\* C9: the verdict of ValidateToken on an access token is decided by its
\* expiry against the clock (the signature being the service's), and no
\* step that leaves the clock alone (revoking, revoking all, cleanup,
\* sign-in, rotation) changes it.
C9_AccessVerdictIgnoresStore ==
    [][\A a \in issued :
          a.payload.token_type = "access" =>
              /\ ValidateToken(a).ok = ~JWTExpired(a)
              /\ now' = now => ValidateToken(a).ok' = ValidateToken(a).ok
      ]_vars

\* C9 witness: an access token validates although every refresh token of
\* its user is revoked.
C9_Witness ==
    \E a \in issued :
        /\ a.payload.token_type = "access"
        /\ ValidateToken(a).ok
        /\ \E r \in refresh_tokens : r.user_id = a.payload.user_id
        /\ \A r \in refresh_tokens :
               r.user_id = a.payload.user_id => r.revoked_at # NULL

\* C10 (as claimed): when a refresh is refused because the store reports
\* the token revoked, no refresh token of that user is left valid.
C10_ReuseTriggersContainment ==
    [][\A c \in Calls :
          (pc[c] = "validate" /\ pc'[c] = "done"
             /\ result'[c].err = "refresh token has been revoked")
          => \A r \in refresh_tokens' :
                 r.user_id = claims[c].user_id =>
                     (r.revoked_at # NULL \/ now > r.expires_at)]_vars

\* ==================================== claims on sign-in and the stores

\* C11 (as claimed): a StoreRefreshToken call whose expiresAt is at or
\* before the time of the call fails and inserts no record.
C11_ExpiredStoreRejected ==
    (lastStore.called /\ lastStore.expiresAt <= lastStore.at)
        => (lastStore.err # "" /\ ~lastStore.inserted)

SignDone(c) == signPc[c] = "done"
SignedIn(c) == SignDone(c) /\ signResult[c].ok

\* The refresh token is mirrored in the Redis index (TokenRepository of
\* pkg/redis stores the token hash as the value of its key).
InRedisIndex(tok) == \E e \in redis : e.value = hashToken(tok)

\* C12 (as claimed): when a sign-in has returned its response, the refresh
\* token of that response has a row in table refresh_tokens and an entry in
\* the Redis index.
C12_PersistedInBothStores ==
    \A c \in Calls :
        SignedIn(c) =>
            /\ RowOf(signResp[c].RefreshToken) # {}
            /\ InRedisIndex(signResp[c].RefreshToken)

\* The provider's email_verified flag says true.  Apple sends the flag as
\* a JSON string or as a JSON boolean, Google as a JSON boolean.
EmailVerifiedTrue(p, payload) ==
    payload.email_verified \in
        (IF p = "apple" THEN {JSONString("true"), JSONBool("true")}
                        ELSE {JSONBool("true")})

\* Request r carries an assertion that is valid at time t: well-formed,
\* signed RS256 by the key its kid names, with the provider's issuer, the
\* configured audience, an expiry after t, the caller's nonce and a true
\* email_verified.
ValidAssertion(r, t) ==
    LET tok == r.id_token
    IN  /\ tok.parts = 3
        /\ tok.alg = "RS256"
        /\ tok.kid # ""
        /\ tok.key = tok.kid
        /\ tok.payload.iss \in Issuers(r.provider)
        /\ ClientID(r.provider) \in tok.payload.aud
        /\ tok.payload.exp # NULL
        /\ t < tok.payload.exp * TicksPerSec
        /\ (r.provider = "apple" => tok.payload.nonce = r.nonce)
        /\ EmailVerifiedTrue(r.provider, tok.payload)

\* Key kid is in provider p's key cache and the cache is fresh.
KeyCached(p, kid) == ~NeedsRefresh(verifier[p]) /\ kid \in verifier[p].keys

\* Call c is handed its request in this step.
Begins(c) == signPc[c] = "idle" /\ signPc'[c] # "idle"

\* C13 (as claimed): VerifyIDToken, given a valid assertion signed by a
\* cached key, succeeds and returns the payload's subject and email.
C13_ValidAssertionVerifies ==
    [][\A c \in Calls :
          (/\ Begins(c)
           /\ ValidAssertion(signReq'[c], now)
           /\ KeyCached(signReq'[c].provider, signReq'[c].id_token.kid))
              => /\ signClaims'[c] # Nil
                 /\ signClaims'[c].Subject = signReq'[c].id_token.payload.sub
                 /\ signClaims'[c].Email = signReq'[c].id_token.payload.email
      ]_vars

\* The errors of the signature class: the key function's refusal of the
\* signing method and the failed verification of the signature.
SignatureErrors == {"unexpected signing method", "signature is invalid"}

FetchFailed(c) ==
    SignDone(c) /\ signResult[c].err = "failed to fetch public keys"

\* C14 (as claimed): a sign-in whose assertion names an algorithm other
\* than RS256 in its header fails in VerifyIDToken with a signature-class
\* error, for both verifiers (the provider's keys being at hand).
C14_OnlyRS256Accepted ==
    \A c \in Calls :
        (/\ signPc[c] # "idle"
         /\ signReq[c].nonce # "" \/ signReq[c].provider = "google"
         /\ signReq[c].id_token.parts = 3
         /\ signReq[c].id_token.alg # "RS256"
         /\ ~FetchFailed(c))
            => /\ SignDone(c)
               /\ signResult[c].step = "verify"
               /\ signResult[c].err \in SignatureErrors

\* The assertion of request r has one of the defects the claim lists: a
\* foreign issuer, a foreign audience, an expiry not after the time of the
\* request, a nonce other than the caller's, or an email_verified flag
\* that does not say true.
WrongNonce(r) ==
    /\ r.provider = "apple"
    /\ r.nonce # ""
    /\ r.id_token.payload.nonce # r.nonce
Defective(r) ==
    LET payload == r.id_token.payload
    IN  \/ payload.iss \notin Issuers(r.provider)
        \/ ClientID(r.provider) \notin payload.aud
        \/ payload.exp # NULL /\ payload.exp * TicksPerSec <= r.at
        \/ WrongNonce(r)
        \/ payload.email_verified \notin {JSONString("true"), JSONBool("true")}

\* C15: a sign-in whose assertion has such a defect fails, and the call
\* writes no users row, mints no token and stores none.
C15_DefectiveSignInChangesNothing ==
    \A c \in Calls :
        (signPc[c] # "idle" /\ Defective(signReq[c]))
            => /\ SignDone(c)
               /\ ~signResult[c].ok
               /\ effects[c] = {}
               /\ signUser[c] = Nil
               /\ signPair[c] = NoToken
               /\ signResp[c] = Nil

\* C15 witness: a sign-in failed on its nonce and wrote nothing, while
\* another sign-in wrote its users row.
C15_Witness ==
    \E c, d \in Calls :
        /\ SignDone(c)
        /\ WrongNonce(signReq[c])
        /\ signResult[c] = Failure("verify", "nonce mismatch")
        /\ effects[c] = {}
        /\ "users" \in effects[d]


\* Failures of a sign-in that come from an outage, not from the request.
OutageErrors == {"failed to fetch public keys", Unavailable,
                 "failed to store refresh token"}
EmbedsSubject(tok, sub) == tok # Nil /\ tok.payload.apple_id = sub

\* C16: every Apple sign-in with a valid assertion (email_verified "true",
\* nonce matching, signed by Apple's published key) returns a token pair
\* whose payload carries the subject of the assertion, whatever the subject
\* (outages and the scan of a row with a NULL provider id aside).
C16_ValidAppleSignInEmbedsSubject ==
    \A c \in Calls :
        (/\ SignDone(c)
         /\ signReq[c].provider = "apple"
         /\ ValidAssertion(signReq[c], signReq[c].at)
         /\ signReq[c].id_token.kid = Kid("apple")
         /\ signReq[c].id_token.payload.email_verified = JSONString("true")
         /\ signResult[c].err \notin OutageErrors \cup {ScanNull})
            => /\ signResult[c].ok
               /\ EmbedsSubject(signResp[c].AccessToken,
                                signReq[c].id_token.payload.sub)
               /\ EmbedsSubject(signResp[c].RefreshToken,
                                signReq[c].id_token.payload.sub)


\* Call c has returned from a sign-in of provider p whose assertion is
\* valid and signed by the provider's published key, with email_verified
\* in the provider's own JSON type and a subject the validator admits;
\* no outage hit the call.
ValidSignInDone(c, p) ==
    /\ SignDone(c)
    /\ signReq[c].provider = p
    /\ ValidAssertion(signReq[c], signReq[c].at)
    /\ signReq[c].id_token.kid = Kid(p)
    /\ signReq[c].id_token.payload.email_verified =
           (IF p = "apple" THEN JSONString("true") ELSE JSONBool("true"))
    /\ (p = "apple" =>
            ValidateAppleID(signReq[c].id_token.payload.sub) = "")
    /\ signResult[c].err \notin OutageErrors
AssertedEmail(c) == signReq[c].id_token.payload.email
UsersByEmail(e) == {u \in users : u.email = e}

\* C17: when an Apple sign-in and a Google sign-in for the same email have
\* both run, in any interleaving, both succeeded, exactly one users row
\* holds that email, it carries both provider ids, and both calls returned
\* its id.
C17_LinkingBothSucceedOneRow ==
    \A a, g \in Calls :
        (/\ ValidSignInDone(a, "apple")
         /\ ValidSignInDone(g, "google")
         /\ AssertedEmail(a) = AssertedEmail(g))
            => /\ signResult[a].ok
               /\ signResult[g].ok
               /\ Cardinality(UsersByEmail(AssertedEmail(a))) = 1
               /\ \A u \in UsersByEmail(AssertedEmail(a)) :
                      /\ u.apple_id = signReq[a].id_token.payload.sub
                      /\ u.google_id = signReq[g].id_token.payload.sub
                      /\ signResp[a].UserID = u.id
                      /\ signResp[g].UserID = u.id


\* The users rows registered under the Apple subject of call c with an
\* email other than the one call c's assertion carries.
RegisteredElsewhere(c) ==
    {u \in users : /\ u.apple_id = signClaims[c].Subject
                   /\ u.email # signClaims[c].Email}
UpsertReturns(c) == signPc[c] = "upsert" /\ signPc'[c] # "upsert"

\* C18: when CreateOrGet runs for an Apple subject already registered
\* under another email, it returns that same users row with the email
\* replaced by the new one (database outages aside).
C18_RegisteredSubjectNewEmail ==
    [][\A c \in Calls :
          (/\ UpsertReturns(c)
           /\ signReq[c].provider = "apple"
           /\ RegisteredElsewhere(c) # {}
           /\ signResult'[c].err # Unavailable)
              => /\ signPc'[c] = "generate"
                 /\ \A u \in RegisteredElsewhere(c) :
                        /\ signUser'[c].ID = u.id
                        /\ signUser'[c].Email = signClaims[c].Email
                        /\ \E v \in users' : /\ v.id = u.id
                                             /\ v.email = signClaims[c].Email
    ]_vars


\* The errors of a sign-in that say the assertion did not verify, one or
\* more for each cause the claim names.
VerificationErrors ==
    {"token is malformed", "unexpected signing method",
     "kid not found in token header", "public key not found for kid",
     "signature is invalid", "token is expired", "token expired",
     "invalid issuer", "invalid audience", "nonce mismatch",
     "email not verified by Apple"}
VerificationFailed(c) ==
    /\ SignDone(c)
    /\ signReq[c].provider = "apple"
    /\ signResult[c].err \in VerificationErrors

C20_ProviderUnavailableDistinct ==
    \A c, d \in Calls :
        (FetchFailed(c) /\ signReq[c].provider = "apple"
                        /\ VerificationFailed(d))
            => http[c] # http[d]


\* ======================================================= pkg/redis
\* The Redis repositories.  The keyspace is the variable redis, a set of
\* entries [key, value, expiry]; rclock is the clock, in milliseconds, that
\* Redis and the repositories' time.Now() read.  A key is a sequence of
\* characters and words, so that a pattern is matched against what the
\* key builder really wrote.
MaxPasses == 3
MillisPerSecond == 1000
NoExpiry == -1

\* Everything the Redis repositories leave alone.
serviceVars == <<now, refresh_tokens, issued, rotationVars, users,
                 nextUserID, verifier, signCallVars, lastStore>>
nonCacheVars == <<serviceVars, keyCall, mu, net>>

\* strconv.FormatInt(userID, 10), for the user ids below 100.
Digits == <<"0", "1", "2", "3", "4", "5", "6", "7", "8", "9">>
FormatInt(n) ==
    IF n < 10 THEN <<Digits[n + 1]>>
              ELSE <<Digits[(n \div 10) + 1], Digits[(n % 10) + 1]>>

\* KeyBuilder: fmt.Sprintf("%s:%s:%s", ...) and fmt.Sprintf("%s:%s", ...).
RefreshTokenKey(uid, tokenID) ==
    <<"refresh", ":">> \o uid \o <<":", tokenID>>
RefreshTokenPattern(uid) == <<"refresh", ":">> \o uid \o <<":", "*">>
BlacklistToken(tokenID) == <<"blacklist", ":", tokenID>>
RateLimitUser(uid) == <<"ratelimit:user", ":">> \o uid
RateLimitIP(ipAddress) == <<"ratelimit:ip", ":", ipAddress>>

\* The entries stored under key k (none or one), and SET / DEL of a key.
KeyEntries(k) == {e \in redis : e.key = k}
Put(store, k, v, exp) ==
    {e \in store : e.key # k} \cup {[key |-> k, value |-> v, expiry |-> exp]}
Del(store, ks) == {e \in store : e.key \notin ks}

\* Time passes by d ms, at most MaxPasses times; Redis drops every key
\* whose expiry has been reached.
Pass(d) ==
    /\ advances < MaxPasses
    /\ advances' = advances + 1
    /\ rclock' = rclock + d
    /\ redis' = {e \in redis : e.expiry = NoExpiry \/ rclock + d < e.expiry}
    /\ UNCHANGED <<rateCall, del, lastCmd>>
    /\ UNCHANGED nonCacheVars

\* ------------------------------------------- RateLimitRepository
\* rateLimitScript with every EXPIRE unconditional.
rateLimitScriptExpireAlways(key, seconds) ==
    LET old     == KeyEntries(key)
        current == IF old = {} THEN 1 ELSE (CHOOSE e \in old : TRUE).value + 1
        exp     == rclock + seconds * MillisPerSecond
    IN  IF seconds <= 0
          THEN [store |-> Del(redis, {key}), current |-> current, ttl |-> -2]
          ELSE [store   |-> Put(redis, key, current, exp),
                current |-> current,
                ttl     |-> (exp - rclock + 500) \div MillisPerSecond]

\* rateLimitScript, run by Redis as one command: INCR; EXPIRE if the
\* counter is 1 (a timeout of 0 or less deletes the key); TTL, which is -2
\* for no key, -1 for no expiry, else the time left rounded to seconds.
rateLimitScript(key, seconds) ==
    LET old     == KeyEntries(key)
        current == IF old = {} THEN 1 ELSE (CHOOSE e \in old : TRUE).value + 1
        oldExp  == IF old = {} THEN NoExpiry
                               ELSE (CHOOSE e \in old : TRUE).expiry
        exp     == IF current = 1 THEN rclock + seconds * MillisPerSecond
                                  ELSE oldExp
    IN  IF current = 1 /\ seconds <= 0
          THEN [store |-> Del(redis, {key}), current |-> current, ttl |-> -2]
          ELSE [store   |-> Put(redis, key, current, exp),
                current |-> current,
                ttl     |-> IF exp = NoExpiry THEN -1
                            ELSE (exp - rclock + 500) \div MillisPerSecond]

\* The windows callers pass, in ms, the keys they count on, and the steps
\* of the clock while they do.
RateWindows == {500, 1000}
RateKeys == {RateLimitUser(FormatInt(1)), RateLimitIP("10.0.0.1")}
RateSteps == {500}
EvalFailed == "failed to increment request count"
TTLFailed == "failed to get TTL"

\* The two revisions of the rate limiter in the sources: the script of
\* cache_repository.go returns the TTL with the count; the earlier one, of
\* part_012, returns the count, and the client asks for the TTL afterwards.
RateRevisions == {"cache_repository.go", "part_012"}

\* TTL key: -2 for no key, -1 for no expiry, else the seconds left; and
\* the expiry of the entry it was read from.
Missing == -2
ExpiryIn(store, key) ==
    IF {e \in store : e.key = key} = {} THEN Missing
    ELSE (CHOOSE e \in store : e.key = key).expiry
TTL(key) ==
    LET exp == ExpiryIn(redis, key)
    IN  IF exp < 0 THEN exp ELSE (exp - rclock + 500) \div MillisPerSecond

\* incrementRequest up to the reply of Eval: the command fails, or Redis
\* runs the script with ARGV[1] = int(window.Seconds()).  One build has
\* one revision of the rate limiter.
IncrementEval(c, rev, key, window) ==
    /\ rateCall[c].pc = "idle"
    /\ \A d \in Calls : rateCall[d].pc # "idle" => rateCall[d].rev = rev
    /\ \/ /\ rateCall' = [rateCall EXCEPT ![c] =
                 [pc |-> "done", rev |-> rev, key |-> key, window |-> window,
                  count |-> 0, ttl |-> 0, at |-> rclock,
                  countExp |-> Missing, ttlExp |-> Missing,
                  resetTime |-> 0, err |-> EvalFailed]]
          /\ UNCHANGED redis
       \/ LET r == rateLimitScript(key, window \div MillisPerSecond)
          IN  /\ redis' = r.store
              /\ rateCall' = [rateCall EXCEPT ![c] =
                     [pc |-> IF rev = "part_012" THEN "ttl" ELSE "reply",
                      rev |-> rev, key |-> key, window |-> window,
                      count |-> r.current,
                      ttl |-> IF rev = "part_012" THEN 0 ELSE r.ttl,
                      at |-> rclock,
                      countExp |-> ExpiryIn(r.store, key),
                      ttlExp |-> ExpiryIn(r.store, key),
                      resetTime |-> 0, err |-> ""]]
    /\ UNCHANGED <<advances, rclock, del, lastCmd>>
    /\ UNCHANGED nonCacheVars

\* The earlier revision's second command, r.client.TTL(ctx, key): it
\* fails, or Redis answers for the key as it is by then.
IncrementTTL(c) ==
    /\ rateCall[c].pc = "ttl"
    /\ \/ rateCall' = [rateCall EXCEPT ![c] =
              [rateCall[c] EXCEPT !.pc = "done", !.err = TTLFailed]]
       \/ rateCall' = [rateCall EXCEPT ![c] =
              [rateCall[c] EXCEPT !.pc = "reply",
                                  !.ttl = TTL(rateCall[c].key),
                                  !.ttlExp = ExpiryIn(redis, rateCall[c].key)]]
    /\ UNCHANGED <<advances, rclock, redis, del, lastCmd>>
    /\ UNCHANGED nonCacheVars

\* incrementRequest from the reply on: resetTime is the client's
\* time.Now() plus the TTL returned (the earlier revision adds the
\* Duration of the TTL command, which for -1 and -2 is nanoseconds).
IncrementReturn(c) ==
    /\ rateCall[c].pc = "reply"
    /\ rateCall' = [rateCall EXCEPT ![c] =
           [rateCall[c] EXCEPT
               !.pc = "done",
               !.resetTime =
                   IF rateCall[c].rev = "part_012" /\ rateCall[c].ttl < 0
                     THEN rclock
                     ELSE rclock + rateCall[c].ttl * MillisPerSecond]]
    /\ UNCHANGED <<advances, rclock, redis, del, lastCmd>>
    /\ UNCHANGED nonCacheVars

GetFailed == "failed to get request count"

\* getRequestCount that takes redis.Nil for a failure.
getRequestCountNilIsError(key) ==
    IF KeyEntries(key) = {}
      THEN [count |-> 0, err |-> "failed to get request count: redis: nil"]
      ELSE [count |-> (CHOOSE e \in KeyEntries(key) : TRUE).value, err |-> ""]

\* getRequestCount once GET has replied: redis.Nil is count 0.
getRequestCount(key) ==
    IF KeyEntries(key) = {}
      THEN [count |-> 0, err |-> ""]
      ELSE [count |-> (CHOOSE e \in KeyEntries(key) : TRUE).value, err |-> ""]

\* GetUserRequestCount / GetIPRequestCount: GET fails, or replies.
GetRequestCount(key) ==
    /\ \E r \in {[count |-> 0, err |-> GetFailed], getRequestCount(key)} :
          lastCmd' = [pc |-> "done", op |-> "getRequestCount", key |-> key,
                      count |-> r.count, err |-> r.err, at |-> rclock]
    /\ UNCHANGED <<advances, rclock, redis, rateCall, del>>
    /\ UNCHANGED nonCacheVars

RateLimitNext ==
    \/ \E d \in RateSteps : Pass(d)
    \/ \E c \in Calls : \E rev \in RateRevisions : \E k \in RateKeys :
       \E w \in RateWindows :
           IncrementEval(c, rev, k, w)
    \/ \E c \in Calls : IncrementTTL(c)
    \/ \E c \in Calls : IncrementReturn(c)
    \/ \E k \in RateKeys : GetRequestCount(k)

RateLimitSpec == Init /\ [][RateLimitNext]_vars


\* ==================================== claims on the Redis repositories
\* The calls whose script has run on key k with window w.
Counted(k, w) ==
    {c \in Calls : /\ rateCall[c].pc \in {"ttl", "reply", "done"}
                   /\ rateCall[c].err = ""
                   /\ rateCall[c].key = k
                   /\ rateCall[c].window = w}
Abs(x) == IF x < 0 THEN -x ELSE x
\* Every call has incremented key k with window w, all of them less than
\* w after the first, and less than w has passed since the first.
AllInOneWindow(k, w) ==
    /\ Counted(k, w) = Calls
    /\ \A c, d \in Calls : rateCall[d].at < rateCall[c].at + w
    /\ \A c \in Calls : rclock < rateCall[c].at + w

\* C21: when all N calls have incremented one key within one window, the
\* counter stands at N, the calls were handed the counts 1..N, and the
\* resetTime values returned differ by no more than the window.
C21_ConcurrentIncrementsCountN ==
    \A k \in RateKeys : \A w \in RateWindows :
        AllInOneWindow(k, w)
            => /\ getRequestCount(k).count = NumCalls
               /\ {rateCall[c].count : c \in Calls} = 1..NumCalls
               /\ \A c, d \in Calls :
                      (rateCall[c].pc = "done" /\ rateCall[d].pc = "done")
                          => Abs(rateCall[c].resetTime
                                     - rateCall[d].resetTime) <= w


\* Call c's script runs in this step.
ScriptRuns(c) ==
    rateCall[c].pc = "idle" /\ rateCall'[c].pc \in {"ttl", "reply"}
EntriesAfter(k) == {e \in redis' : e.key = k}

CountRead(k) ==
    /\ lastCmd' # lastCmd
    /\ lastCmd'.op = "getRequestCount"
    /\ lastCmd'.key = k
    /\ lastCmd'.err # GetFailed

\* C23: GetUserRequestCount and GetIPRequestCount on a key that does not
\* exist return count 0 and no error (when Redis answers at all).
C23_AbsentKeyCountsZero ==
    [][\A k \in RateKeys :
          (CountRead(k) /\ KeyEntries(k) = {})
              => (lastCmd'.count = 0 /\ lastCmd'.err = "")
    ]_vars

\* C23 witness: a counter was incremented, its window ran out, and the
\* count read afterwards is 0 with no error.
C23_Witness ==
    \E c \in Calls :
        /\ rateCall[c].pc = "done"
        /\ rateCall[c].count = 1
        /\ rateCall[c].ttl = 1
        /\ lastCmd.pc = "done"
        /\ lastCmd.op = "getRequestCount"
        /\ lastCmd.key = rateCall[c].key
        /\ lastCmd.at >= rateCall[c].at + MillisPerSecond
        /\ lastCmd.count = 0
        /\ lastCmd.err = ""


\* ============================ pkg/redis: TokenRepository, BlacklistRepository
\* MirrorSpec: the refresh-token mirror and the blacklist.  The clock is in
\* ms and moves in steps of MirrorStep.
MirrorStep == 50
MirrorUsers == {1, 12}
MirrorTokenIDs == {"tA", "tB"}
MirrorExpiries == {50, 100, 150}
MirrorHash == "h"
MaxRuns == 2

\* The two revisions of the token repository in the sources.
Revisions == {"token_repository.go", "part_012"}

\* minTokenTTL and minBlacklistTTL, 100 * time.Millisecond.
minTokenTTL == 100
minBlacklistTTL == 100

\* scanBatchSize and the iteration limit of DeleteAllUserTokens, scaled
\* from 50 and 1000 so that a keyspace of a few keys is beyond a scan's reach
\* the way one above 50,000 keys is for the program.
scanBatchSize == 1
maxScanIterations == 2

TokenExpired == "token already expired"
TokenNearExpiry == "token expires too soon"
StoreFailed == "failed to store refresh token"
TokenNotFound == "refresh token not found"
BlacklistFailed == "failed to add token to blacklist"
Cancelled == "operation cancelled while deleting tokens"
IterationLimit == "exceeded maximum iterations"
ScanFailed == "failed to scan refresh tokens"
DelFailed == "failed to delete refresh tokens"
DelCancelled == "failed to delete refresh tokens: context canceled"

\* A successful SET of key k is a new mirror of it: the bulk deletion under
\* way (or finished) no longer counts k among the keys mirrored before it
\* began, nor among the keys it has deleted.
NoteSet(k) ==
    IF del.pc = "idle" THEN del
    ELSE [del EXCEPT !.before = @ \ {k}, !.gone = @ \ {k}]

\* The guard of StoreRefreshToken: ttl <= 0 in token_repository.go,
\* ttl <= minTokenTTL in the revision of part_012.
tooSoon(rev, ttl) ==
    IF rev = "part_012" THEN ttl <= minTokenTTL ELSE ttl <= 0

\* TokenRepository.StoreRefreshToken of revision rev.
RedisStoreRefreshToken(rev, uid, tokenID, expiresAt) ==
    LET key == RefreshTokenKey(FormatInt(uid), tokenID)
        ttl == expiresAt - rclock
        cmd == [pc |-> "done", op |-> "StoreRefreshToken", rev |-> rev,
                key |-> key, expiresAt |-> expiresAt, ttl |-> ttl,
                at |-> rclock, wrote |-> FALSE, err |-> ""]
    IN  /\ IF tooSoon(rev, ttl)
             THEN /\ lastCmd' = [cmd EXCEPT !.err =
                        IF rev = "part_012" THEN TokenNearExpiry
                                            ELSE TokenExpired]
                  /\ UNCHANGED <<redis, del>>
             ELSE \/ /\ lastCmd' = [cmd EXCEPT !.err = StoreFailed]
                     /\ UNCHANGED <<redis, del>>
                  \/ /\ redis' = Put(redis, key, MirrorHash, rclock + ttl)
                     /\ del' = NoteSet(key)
                     /\ lastCmd' = [cmd EXCEPT !.wrote = TRUE]
        /\ UNCHANGED <<advances, rclock, rateCall>>
        /\ UNCHANGED nonCacheVars

\* TokenRepository.GetRefreshToken once GET has replied.
GetRefreshToken(uid, tokenID) ==
    LET found == KeyEntries(RefreshTokenKey(FormatInt(uid), tokenID))
    IN  IF found = {} THEN [hash |-> "", err |-> TokenNotFound]
        ELSE [hash |-> (CHOOSE e \in found : TRUE).value, err |-> ""]

\* The TTL with a margin taken off the time remaining.
blacklistTTLLessMargin(ttl) ==
    IF ttl <= minBlacklistTTL THEN minBlacklistTTL ELSE ttl - MirrorStep

\* The TTL AddToBlacklist gives SET: at least minBlacklistTTL.
blacklistTTL(ttl) == IF ttl < minBlacklistTTL THEN minBlacklistTTL ELSE ttl

\* BlacklistRepository.AddToBlacklist.
AddToBlacklist(tokenID, expiresAt) ==
    LET key == BlacklistToken(tokenID)
        ttl == expiresAt - rclock
        cmd == [pc |-> "done", op |-> "AddToBlacklist", key |-> key,
                expiresAt |-> expiresAt, ttl |-> 0, at |-> rclock,
                wrote |-> FALSE, err |-> ""]
    IN  /\ IF ttl <= 0
             THEN /\ lastCmd' = cmd
                  /\ UNCHANGED redis
             ELSE \/ /\ lastCmd' = [cmd EXCEPT !.err = BlacklistFailed]
                     /\ UNCHANGED redis
                  \/ /\ redis' = Put(redis, key, "1", rclock + blacklistTTL(ttl))
                     /\ lastCmd' = [cmd EXCEPT !.wrote = TRUE,
                                               !.ttl = blacklistTTL(ttl)]
        /\ UNCHANGED <<advances, rclock, rateCall, del>>
        /\ UNCHANGED nonCacheVars

\* BlacklistRepository.IsBlacklisted once EXISTS has replied.
IsBlacklisted(tokenID) == KeyEntries(BlacklistToken(tokenID)) # {}

\* The keys the keyspace can hold, in the order SCAN walks them.
ScanOrder ==
    << BlacklistToken("tA"),
       RefreshTokenKey(FormatInt(12), "tA"),
       RefreshTokenKey(FormatInt(1), "tA"),
       RefreshTokenKey(FormatInt(1), "tB") >>

\* MATCH for a pattern without the separator before the *.
MatchWithoutSeparator(pattern, key) ==
    LET n == Len(pattern) - 2
    IN  /\ Len(key) >= n
        /\ SubSeq(key, 1, n) = SubSeq(pattern, 1, n)

\* MATCH: the pattern's text before its trailing * opens the key.
Match(pattern, key) ==
    LET n == Len(pattern) - 1
    IN  /\ Len(key) >= n
        /\ SubSeq(key, 1, n) = SubSeq(pattern, 1, n)

\* SCAN that reports the walk complete with its first reply.
ScanOnce(cursor, pattern, count) ==
    LET ahead == {i \in (cursor + 1)..Len(ScanOrder) :
                     KeyEntries(ScanOrder[i]) # {}}
        taken == {i \in ahead : Cardinality({j \in ahead : j < i}) < count}
    IN  [keys   |-> {ScanOrder[i] : i \in {j \in taken :
                                         Match(pattern, ScanOrder[j])}},
         cursor |-> 0]

\* SCAN cursor MATCH pattern COUNT count: Redis examines the next count
\* keys after the cursor, returns those that match, and the cursor to go on
\* from, 0 when the walk is complete.
Scan(cursor, pattern, count) ==
    LET ahead == {i \in (cursor + 1)..Len(ScanOrder) :
                     KeyEntries(ScanOrder[i]) # {}}
        taken == {i \in ahead : Cardinality({j \in ahead : j < i}) < count}
        rest  == ahead \ taken
    IN  [keys   |-> {ScanOrder[i] : i \in {j \in taken :
                                         Match(pattern, ScanOrder[j])}},
         cursor |-> IF rest = {} THEN 0
                    ELSE CHOOSE i \in taken : \A j \in taken : j <= i]

\* The refresh-token keys of user uid in the keyspace.
Mirrored(uid) ==
    {k \in {RefreshTokenKey(FormatInt(uid), t) : t \in MirrorTokenIDs} :
        KeyEntries(k) # {}}

\* DeleteAllUserTokens is called: cursor 0, iteration 0.  A call after a
\* finished one for the same user is a further run.
DeleteAllUserTokens(uid) ==
    /\ del.pc \in {"idle", "done"}
    /\ LET again == del.pc = "done" /\ del.uid = uid
       IN  /\ again => del.run < MaxRuns
           /\ del' = [pc |-> "loop", uid |-> uid, cursor |-> 0,
                      iteration |-> 0, scans |-> 0, dels |-> 0,
                      keys |-> {}, err |-> "", ctxDone |-> FALSE,
                      before |-> Mirrored(uid),
                      run |-> IF again THEN del.run + 1 ELSE 1,
                      prevErr |-> IF again THEN del.err ELSE "",
                      gone |-> IF again THEN del.gone ELSE {}]
    /\ UNCHANGED <<advances, rclock, redis, rateCall, lastCmd>>
    /\ UNCHANGED nonCacheVars

\* The caller's context is cancelled, or its deadline passes, while
\* DeleteAllUserTokens is running.
CancelContext ==
    /\ del.pc \in {"loop", "batch"}
    /\ ~del.ctxDone
    /\ del' = [del EXCEPT !.ctxDone = TRUE]
    /\ UNCHANGED <<advances, rclock, redis, rateCall, lastCmd>>
    /\ UNCHANGED nonCacheVars

\* The loop of DeleteAllUserTokens without its iteration limit.
DeleteScanNoLimit ==
    /\ del.pc = "loop"
    /\ \/ /\ del.ctxDone
          /\ del' = [del EXCEPT !.pc = "done", !.err = Cancelled]
       \/ LET r == Scan(del.cursor, RefreshTokenPattern(FormatInt(del.uid)),
                        scanBatchSize)
          IN  /\ ~del.ctxDone
              /\ del' = [del EXCEPT
                     !.iteration = @ + 1,
                     !.scans = @ + 1,
                     !.keys = r.keys,
                     !.cursor = r.cursor,
                     !.pc = IF r.keys # {} THEN "batch"
                            ELSE IF r.cursor = 0 THEN "done" ELSE "loop"]
    /\ UNCHANGED <<advances, rclock, redis, rateCall, lastCmd>>
    /\ UNCHANGED nonCacheVars

\* The loop of DeleteAllUserTokens without the test of ctx.Done(), its
\* commands sent whatever has become of the context.
DeleteScanIgnoresContext ==
    /\ del.pc = "loop"
    /\ \/ /\ del.iteration + 1 > maxScanIterations
          /\ del' = [del EXCEPT !.pc = "done", !.err = IterationLimit,
                                !.iteration = @ + 1]
       \/ LET r == Scan(del.cursor, RefreshTokenPattern(FormatInt(del.uid)),
                        scanBatchSize)
          IN  /\ del.iteration + 1 <= maxScanIterations
              /\ del' = [del EXCEPT
                     !.iteration = @ + 1,
                     !.scans = @ + 1,
                     !.keys = r.keys,
                     !.cursor = r.cursor,
                     !.pc = IF r.keys # {} THEN "batch"
                            ELSE IF r.cursor = 0 THEN "done" ELSE "loop"]
    /\ UNCHANGED <<advances, rclock, redis, rateCall, lastCmd>>
    /\ UNCHANGED nonCacheVars

\* The head of the loop up to the reply of SCAN: the context is done, or
\* the iteration limit is passed, or SCAN fails, or it replies.
DeleteScan ==
    /\ del.pc = "loop"
    /\ \/ /\ del.ctxDone
          /\ del' = [del EXCEPT !.pc = "done", !.err = Cancelled]
       \/ /\ ~del.ctxDone
          /\ del.iteration + 1 > maxScanIterations
          /\ del' = [del EXCEPT !.pc = "done", !.err = IterationLimit,
                                !.iteration = @ + 1]
       \/ /\ ~del.ctxDone
          /\ del.iteration + 1 <= maxScanIterations
          /\ \/ del' = [del EXCEPT !.pc = "done", !.err = ScanFailed,
                                   !.iteration = @ + 1, !.scans = @ + 1]
             \/ LET r == Scan(del.cursor,
                              RefreshTokenPattern(FormatInt(del.uid)),
                              scanBatchSize)
                IN  del' = [del EXCEPT
                        !.iteration = @ + 1,
                        !.scans = @ + 1,
                        !.keys = r.keys,
                        !.cursor = r.cursor,
                        !.pc = IF r.keys # {} THEN "batch"
                               ELSE IF r.cursor = 0 THEN "done" ELSE "loop"]
    /\ UNCHANGED <<advances, rclock, redis, rateCall, lastCmd>>
    /\ UNCHANGED nonCacheVars

\* The rest of the loop body: DEL of the batch fails, or deletes it; the
\* loop ends when the cursor is 0.  With a context that is done the client
\* returns the context's error and sends nothing.
DeleteBatch ==
    /\ del.pc = "batch"
    /\ \/ /\ del.ctxDone
          /\ del' = [del EXCEPT !.pc = "done", !.err = DelCancelled]
          /\ UNCHANGED redis
       \/ /\ ~del.ctxDone
          /\ del' = [del EXCEPT !.pc = "done", !.err = DelFailed,
                                !.dels = @ + 1]
          /\ UNCHANGED redis
       \/ /\ ~del.ctxDone
          /\ redis' = Del(redis, del.keys)
          /\ del' = [del EXCEPT
                 !.dels = @ + 1,
                 !.gone = @ \cup {k \in del.keys : KeyEntries(k) # {}},
                 !.pc = IF del.cursor = 0 THEN "done" ELSE "loop"]
    /\ UNCHANGED <<advances, rclock, rateCall, lastCmd>>
    /\ UNCHANGED nonCacheVars

MirrorNext ==
    \/ Pass(MirrorStep)
    \/ \E rev \in Revisions : \E uid \in MirrorUsers :
       \E t \in MirrorTokenIDs : \E x \in MirrorExpiries :
           RedisStoreRefreshToken(rev, uid, t, x)
    \/ \E x \in MirrorExpiries : AddToBlacklist("tA", x)

MirrorSpec == Init /\ [][MirrorNext]_vars

\* DeleteSpec: bulk deletion while tokens are mirrored, tokens are
\* blacklisted and time passes; every key is set to expire at DeleteExpiry.
DeleteExpiry == 150
DeleteStores == {<<1, "tA">>, <<1, "tB">>, <<12, "tA">>}

DeleteNext ==
    \/ Pass(MirrorStep)
    \/ \E k \in DeleteStores :
           RedisStoreRefreshToken("token_repository.go", k[1], k[2],
                                  DeleteExpiry)
    \/ AddToBlacklist("tA", DeleteExpiry)
    \/ \E uid \in MirrorUsers : DeleteAllUserTokens(uid)
    \/ CancelContext
    \/ DeleteScan
    \/ DeleteBatch

DeleteSpec == Init /\ [][DeleteNext]_vars

\* The bulk deletion with a caller that goes on running: the loop takes its
\* next step whenever it has one, while tokens are mirrored alongside.
DeleteRunNext ==
    \/ \E k \in DeleteStores :
           RedisStoreRefreshToken("token_repository.go", k[1], k[2],
                                  DeleteExpiry)
    \/ \E uid \in MirrorUsers : DeleteAllUserTokens(uid)
    \/ CancelContext
    \/ DeleteScan
    \/ DeleteBatch

DeleteFairSpec ==
    /\ Init
    /\ [][DeleteRunNext]_vars
    /\ WF_vars(DeleteScan)
    /\ WF_vars(DeleteBatch)


\* ------------------------------------ claims on the mirror and the blacklist
\* StoreRefreshToken has returned, and not for a failure of SET.
StoreAnswered ==
    /\ lastCmd.pc = "done"
    /\ lastCmd.op = "StoreRefreshToken"
    /\ lastCmd.err # StoreFailed

\* C25: the mirror's StoreRefreshToken rejects the token as expiring too
\* soon, and writes nothing, exactly when the time remaining until
\* expiresAt is below the 100 ms margin; with the margin or more remaining
\* (exactly 100 ms included) the token is stored.
C25_RejectedExactlyBelowMargin ==
    StoreAnswered =>
        /\ (lastCmd.ttl < minTokenTTL) <=>
               (lastCmd.err \in {TokenNearExpiry, TokenExpired}
                    /\ ~lastCmd.wrote)
        /\ lastCmd.ttl >= minTokenTTL =>
               /\ lastCmd.wrote
               /\ lastCmd.err = ""

\* C26: the TTL AddToBlacklist gives the entry is at most the time
\* remaining until expiresAt, and once expiresAt has passed the token has
\* no blacklist key.
C26_BlacklistNeverOutlivesToken ==
    (/\ lastCmd.pc = "done"
     /\ lastCmd.op = "AddToBlacklist"
     /\ lastCmd.wrote) =>
        /\ lastCmd.ttl <= lastCmd.expiresAt - lastCmd.at
        /\ rclock >= lastCmd.expiresAt => KeyEntries(lastCmd.key) = {}


\* ------------------------------------------- claims on the bulk deletion
\* What ends a run of DeleteAllUserTokens from outside: its context is
\* done, or a Redis command fails.
StoppedFromOutside == {Cancelled, DelCancelled, ScanFailed, DelFailed}

\* After a run that returned success, GetRefreshToken reports not found for
\* every token of the user that was mirrored before the run began.
MirroredBeforeNotFound ==
    (del.pc = "done" /\ del.err = "") =>
        \A t \in MirrorTokenIDs :
            RefreshTokenKey(FormatInt(del.uid), t) \in del.before =>
                GetRefreshToken(del.uid, t).err = TokenNotFound

\* No key a run has deleted is in the keyspace again (unless mirrored anew).
DeletedStayDeleted ==
    del.pc # "idle" => \A k \in del.gone : KeyEntries(k) = {}

Verifiers == {"apple", "google14", "google15"}
ProviderOf(k) == IF k = "apple" THEN "apple" ELSE "google"
HasMutex(k) == k # "apple"
KeyIDs(p) == {Kid(p), "unknownKid"}
KeyNotFound == "public key not found for kid"
KeyFetchFailed == "failed to fetch public keys"

nonKeyVars == <<now, advances, refresh_tokens, issued, rotationVars, users,
                nextUserID, signCallVars, lastStore, redis, cacheVars, net>>

\* Time passes by half the life of the key cache.
KeyElapse ==
    /\ advances < MaxAdvances
    /\ advances' = advances + 1
    /\ now' = now + KeyCacheTTL \div 2
    /\ UNCHANGED <<verifier, keyCall, mu>>
    /\ UNCHANGED <<refresh_tokens, issued, rotationVars, users, nextUserID,
                   signCallVars, lastStore, redis, cacheVars, net>>

Free(c) == mu[keyCall[c].p].writer = 0
MayRead(c) == HasMutex(keyCall[c].k) => Free(c)
Release(c) ==
    IF mu[keyCall[c].p].writer = c
      THEN [mu EXCEPT ![keyCall[c].p] = Unlocked] ELSE mu

\* The key function is called for a token with an RSA method and key id
\* kid, once by each caller.  One build has one revision of the Google
\* verifier.
KeyFuncBegin(c, k, kid) ==
    /\ keyCall[c].pc = "idle"
    /\ \A d \in Calls : keyCall[d].pc # "idle" =>
           (keyCall[d].p = ProviderOf(k) => keyCall[d].k = k)
    /\ kid \in KeyIDs(ProviderOf(k))
    /\ keyCall' = [keyCall EXCEPT ![c] =
           [pc |-> "check", k |-> k, p |-> ProviderOf(k), kid |-> kid,
            seen |-> verifier[ProviderOf(k)], checkedAt |-> now,
            fetched |-> FALSE, err |-> ""]]
    /\ UNCHANGED <<verifier, mu>>
    /\ UNCHANGED nonKeyVars

\* refreshKeysIfNeeded's first test of the cache: Apple's without a lock,
\* Google's under RLock.
CheckStale(c) ==
    /\ keyCall[c].pc = "check"
    /\ MayRead(c)
    /\ keyCall' = [keyCall EXCEPT ![c] =
           [keyCall[c] EXCEPT
               !.seen = verifier[keyCall[c].p],
               !.checkedAt = now,
               !.pc = IF ~NeedsRefresh(verifier[keyCall[c].p]) THEN "lookup"
                      ELSE IF keyCall[c].k = "google15" THEN "lock"
                      ELSE "fetch"]]
    /\ UNCHANGED <<verifier, mu>>
    /\ UNCHANGED nonKeyVars

\* v.mu.Lock(): before the second test in part_015, before the two
\* assignments in part_014.
AcquireLock(c) ==
    /\ keyCall[c].pc = "lock"
    /\ Free(c)
    /\ mu' = [mu EXCEPT ![keyCall[c].p] = [writer |-> c]]
    /\ keyCall' = [keyCall EXCEPT ![c].pc =
           IF keyCall[c].k = "google15" THEN "recheck" ELSE "writeKeys"]
    /\ UNCHANGED verifier
    /\ UNCHANGED nonKeyVars

\* part_015: the test again, under the write lock.
Recheck(c) ==
    /\ keyCall[c].pc = "recheck"
    /\ IF NeedsRefresh(verifier[keyCall[c].p])
         THEN /\ keyCall' = [keyCall EXCEPT ![c] =
                     [keyCall[c] EXCEPT !.seen = verifier[keyCall[c].p],
                                        !.checkedAt = now,
                                        !.pc = "fetch"]]
              /\ UNCHANGED mu
         ELSE /\ keyCall' = [keyCall EXCEPT ![c] =
                     [keyCall[c] EXCEPT !.seen = verifier[keyCall[c].p],
                                        !.checkedAt = now,
                                        !.pc = "lookup"]]
              /\ mu' = Release(c)
    /\ UNCHANGED verifier
    /\ UNCHANGED nonKeyVars

\* fetchPublicKeys that stamps the cache as fetched when the fetch fails.
FetchPublicKeysStampsFailure(c) ==
    /\ keyCall[c].pc = "fetch"
    /\ keyCall' = [keyCall EXCEPT ![c] =
           [keyCall[c] EXCEPT !.pc = "done", !.err = KeyFetchFailed]]
    /\ mu' = Release(c)
    /\ verifier' = [verifier EXCEPT ![keyCall[c].p].lastFetch = now + 1]
    /\ UNCHANGED nonKeyVars

\* fetchPublicKeys up to the decoded key set: the GET fails (the deferred
\* Unlock of part_015 runs), or the key set is there.
FetchPublicKeys(c) ==
    /\ keyCall[c].pc = "fetch"
    /\ \/ /\ keyCall' = [keyCall EXCEPT ![c] =
                 [keyCall[c] EXCEPT !.pc = "done", !.err = KeyFetchFailed]]
          /\ mu' = Release(c)
       \/ /\ keyCall' = [keyCall EXCEPT ![c] =
                 [keyCall[c] EXCEPT
                     !.fetched = TRUE,
                     !.pc = IF keyCall[c].k = "google14" THEN "lock"
                            ELSE "writeKeys"]]
          /\ UNCHANGED mu
    /\ UNCHANGED verifier
    /\ UNCHANGED nonKeyVars

\* v.keys = newKeys
WriteKeys(c) ==
    /\ keyCall[c].pc = "writeKeys"
    /\ verifier' = [verifier EXCEPT
           ![keyCall[c].p].keys = PublishedKeys(keyCall[c].p)]
    /\ keyCall' = [keyCall EXCEPT ![c].pc = "writeTime"]
    /\ UNCHANGED mu
    /\ UNCHANGED nonKeyVars

\* v.lastFetch = time.Now(), and the Unlock of the Google verifier.
WriteLastFetch(c) ==
    /\ keyCall[c].pc = "writeTime"
    /\ verifier' = [verifier EXCEPT ![keyCall[c].p].lastFetch = now]
    /\ keyCall' = [keyCall EXCEPT ![c].pc = "lookup"]
    /\ mu' = Release(c)
    /\ UNCHANGED nonKeyVars

\* v.keys[kid]: Apple's without a lock, Google's under RLock.
LookupKey(c) ==
    /\ keyCall[c].pc = "lookup"
    /\ MayRead(c)
    /\ keyCall' = [keyCall EXCEPT ![c] =
           [keyCall[c] EXCEPT
               !.pc = "done",
               !.err = IF keyCall[c].kid \in verifier[keyCall[c].p].keys
                         THEN "" ELSE KeyNotFound]]
    /\ UNCHANGED <<verifier, mu>>
    /\ UNCHANGED nonKeyVars

KeyNext ==
    \/ KeyElapse
    \/ \E c \in Calls : \E k \in Verifiers : \E kid \in KeyIDs(ProviderOf(k)) :
           KeyFuncBegin(c, k, kid)
    \/ \E c \in Calls : CheckStale(c)
    \/ \E c \in Calls : AcquireLock(c)
    \/ \E c \in Calls : Recheck(c)
    \/ \E c \in Calls : FetchPublicKeys(c)
    \/ \E c \in Calls : WriteKeys(c)
    \/ \E c \in Calls : WriteLastFetch(c)
    \/ \E c \in Calls : LookupKey(c)

KeySpec == Init /\ [][KeyNext]_vars


\* ------------------------------------------------- claims on the key cache
\* Calls c and d are two calls on the same verifier.
SameVerifier(c, d) ==
    /\ c # d
    /\ keyCall[c].pc # "idle"
    /\ keyCall[d].pc # "idle"
    /\ keyCall[c].p = keyCall[d].p

\* C28: of the callers that find one and the same state of a provider's
\* key cache stale or empty, at most one fetches the key set.
C28_FetchesNeverDuplicated ==
    \A c, d \in Calls :
        (/\ SameVerifier(c, d)
         /\ keyCall[c].fetched
         /\ keyCall[d].fetched) => keyCall[c].seen # keyCall[d].seen

\* The statements of a call that read or write v.keys or v.lastFetch.
Accessing == {"check", "recheck", "lookup", "writeKeys", "writeTime"}

\* C29: while one call is replacing a provider's key map and fetched-at
\* time (it has assigned the one and not yet the other), no other call on
\* that verifier reads or writes them.
C29_CacheAccessExclusive ==
    [][\A c, d \in Calls :
          (/\ SameVerifier(c, d)
           /\ keyCall[d].pc = "writeTime"
           /\ keyCall[c].pc \in Accessing) => keyCall'[c] = keyCall[c]]_vars

\* The cache as call c last tested it was fresh: fetched less than 24 hours
\* before, and not empty.
SawFresh(c) ==
    /\ keyCall[c].pc \notin {"idle", "check"}
    /\ keyCall[c].checkedAt - keyCall[c].seen.lastFetch < KeyCacheTTL
    /\ keyCall[c].seen.keys # {}

googleClientTimeout == 10
DefaultQueryTimeout == 5
ReadTimeout == 3
NetKinds == {"appleKeyFetch", "googleKeyFetch", "query", "cacheCommand"}
NetTimeout == "timeout"

\* The deadline of a call, 0 for none: http.Get of the Apple verifier uses
\* http.DefaultClient, which has no timeout; the Google verifier's client
\* has Timeout 10 s; a query runs under context.WithTimeout(ctx,
\* DefaultQueryTimeout); a Redis command waits ReadTimeout for its reply.
DeadlineOf(kind) ==
    IF kind = "appleKeyFetch" THEN 0
    ELSE IF kind = "googleKeyFetch" THEN googleClientTimeout
    ELSE IF kind = "query" THEN DefaultQueryTimeout
    ELSE ReadTimeout

nonNetVars == <<now, advances, refresh_tokens, issued, rotationVars, users,
                nextUserID, verifier, signCallVars, lastStore, redis,
                cacheVars, keyCall, mu>>

Waiting == {c \in Calls : net[c].pc = "waiting"}
Due(c) ==
    /\ net[c].pc = "waiting"
    /\ DeadlineOf(net[c].kind) # 0
    /\ net[c].waited >= DeadlineOf(net[c].kind)

\* The request is sent.
NetCall(c, kind) ==
    /\ net[c].pc = "idle"
    /\ net' = [net EXCEPT ![c] =
           [pc |-> "waiting", kind |-> kind, waited |-> 0, err |-> ""]]
    /\ UNCHANGED nonNetVars

\* The peer replies, and the call returns with the reply.
PeerReplies(c) ==
    /\ net[c].pc = "waiting"
    /\ net' = [net EXCEPT ![c].pc = "done"]
    /\ UNCHANGED nonNetVars

\* A second passes: every timer of a waiting call counts it (a call
\* without a deadline has none); none passes a call's deadline without the
\* deadline ending the call.
NetTick ==
    /\ Waiting # {}
    /\ \A c \in Waiting : ~Due(c)
    /\ net' = [c \in Calls |->
                 IF c \in Waiting /\ DeadlineOf(net[c].kind) # 0
                   THEN [net[c] EXCEPT !.waited = @ + 1] ELSE net[c]]
    /\ UNCHANGED nonNetVars

\* The deadline of the call is reached: it returns with a timeout.
Deadline(c) ==
    /\ Due(c)
    /\ net' = [net EXCEPT ![c] = [net[c] EXCEPT !.pc = "done",
                                               !.err = NetTimeout]]
    /\ UNCHANGED nonNetVars

NetNext ==
    \/ \E c \in Calls : \E kind \in NetKinds : NetCall(c, kind)
    \/ \E c \in Calls : PeerReplies(c)
    \/ NetTick
    \/ \E c \in Calls : Deadline(c)

\* Time passes and timers fire; nothing makes a peer reply.
NetSpec ==
    /\ Init
    /\ [][NetNext]_vars
    /\ WF_vars(NetTick)
    /\ \A c \in Calls : WF_vars(Deadline(c))

\* ------------------------------------------------ claims on network calls
\* C27: every call that waits on a network peer (the key fetch of either
\* verifier, a query of the durable store, a cache command) eventually
\* returns, with a timeout if the peer never replies.
C27_NetworkCallsReturn ==
    \A c \in Calls : (net[c].pc = "waiting") ~> (net[c].pc = "done")


\* C31: when the fetch of the key set is rejected, the call fails and the
\* key map and fetched-at time of the verifier are exactly as they were; a
\* cache that was stale is stale still, so the next call fetches again.
C31_FailedFetchLeavesCache ==
    [][\A c \in Calls :
          (/\ keyCall[c].pc = "fetch"
           /\ keyCall'[c].pc = "done") =>
              /\ keyCall'[c].err = KeyFetchFailed
              /\ verifier' = verifier
              /\ NeedsRefresh(verifier[keyCall[c].p]) =>
                     NeedsRefresh(verifier'[keyCall[c].p])]_vars

\* One call's fetch was rejected, and the next call, finding the cache as
\* the first found it, has fetched.
C31_Witness ==
    \E c, d \in Calls :
        /\ SameVerifier(c, d)
        /\ keyCall[c].pc = "done"
        /\ keyCall[c].err = KeyFetchFailed
        /\ keyCall[d].fetched
        /\ keyCall[d].seen = keyCall[c].seen
        /\ keyCall[d].seen = verifier[keyCall[d].p]


\* DeleteAllUserTokens has been called and has not returned.
Deleting == del.pc \in {"loop", "batch"}

C33_CancelStopsAtBatchBoundary ==
    [][(/\ Deleting
        /\ del.ctxDone
        /\ del'.pc # del.pc) =>
           /\ del'.pc = "done"
           /\ del'.err \in {Cancelled, DelCancelled}
           /\ del'.scans = del.scans
           /\ del'.dels = del.dels
           /\ redis' = redis
           /\ \A k \in del.gone : {e \in redis' : e.key = k} = {}]_vars

\* A run was cancelled after it had deleted a batch, with keys left.
C33_Witness ==
    /\ del.pc = "done"
    /\ del.ctxDone
    /\ del.err = Cancelled
    /\ del.gone # {}
    /\ del.dels >= 1
    /\ Mirrored(del.uid) # {}


\* The keys refresh:u:<tokenID> of user u.
KeysOfUser(u) == {RefreshTokenKey(FormatInt(u), t) : t \in MirrorTokenIDs}

\* C38: a step of DeleteAllUserTokens(u) removes from the keyspace only
\* keys refresh:u:<tokenID>, and changes no other entry: the tokens of every
\* other user (1 and 12 share a leading digit) and the blacklist keys stay
\* as they are.
C38_DeletesOnlyOwnKeys ==
    [][(del.pc = "batch" /\ del'.pc # "batch") =>
          /\ redis' \subseteq redis
          /\ \A e \in redis \ redis' : e.key \in KeysOfUser(del.uid)]_vars

\* DeleteAllUserTokens(1) has succeeded and deleted a token of user 1,
\* with a token of user 12 and a blacklist entry in the keyspace.
C38_Witness ==
    /\ del.pc = "done"
    /\ del.err = ""
    /\ del.uid = 1
    /\ del.gone # {}
    /\ KeyEntries(RefreshTokenKey(FormatInt(12), "tA")) # {}
    /\ KeyEntries(BlacklistToken("tA")) # {}


\* ------------------------------------------- claims on the rate limiter
\* Increment has the count and the TTL it will return.
Answered(c) ==
    /\ rateCall[c].pc \in {"reply", "done"}
    /\ rateCall[c].err = ""

\* C34: the TTL Increment returns is that of the live counter of the
\* window its count belongs to: it was read from the entry the increment
\* left, it is not the -2 of a missing key nor the -1 of a key without
\* expiry, and it is no longer than the window.
C34_TTLOfTheCountedWindow ==
    \A c \in Calls :
        Answered(c) =>
            /\ rateCall[c].ttlExp = rateCall[c].countExp
            /\ rateCall[c].ttl >= 0
            /\ rateCall[c].ttl * MillisPerSecond <= rateCall[c].window


\* The script has run for call c.
Incremented(c) ==
    /\ rateCall[c].pc \in {"ttl", "reply", "done"}
    /\ rateCall[c].err \in {"", TTLFailed}

\* C40: whatever the positive window, the increment that returns 1 leaves
\* a counter that expires later than now, and another increment of that
\* key inside the window returns 2.
C40_FirstIncrementSetsPositiveExpiry ==
    \A c \in Calls :
        (Incremented(c) /\ rateCall[c].count = 1) =>
            /\ rateCall[c].countExp > rateCall[c].at
            /\ \A d \in Calls \ {c} :
                   (/\ Incremented(d)
                    /\ rateCall[d].key = rateCall[c].key
                    /\ rateCall[d].at >= rateCall[c].at
                    /\ rateCall[d].at < rateCall[c].at + rateCall[c].window)
                       => rateCall[d].count = 2


\* C39: after AddToBlacklist(tokenID, expiresAt) has returned success for
\* a token not yet expired, IsBlacklisted(tokenID) is true at every time
\* before expiresAt.
C39_BlacklistedUntilExpiry ==
    (/\ lastCmd.pc = "done"
     /\ lastCmd.op = "AddToBlacklist"
     /\ lastCmd.err = ""
     /\ lastCmd.expiresAt > lastCmd.at
     /\ rclock < lastCmd.expiresAt) =>
        /\ lastCmd.wrote
        /\ IsBlacklisted(lastCmd.key[3])

\* A token was blacklisted, time has passed, and it expires later still.
C39_Witness ==
    /\ lastCmd.pc = "done"
    /\ lastCmd.op = "AddToBlacklist"
    /\ lastCmd.wrote
    /\ rclock >= lastCmd.at + 2 * MirrorStep
    /\ rclock < lastCmd.expiresAt
    /\ IsBlacklisted("tA")


\* ============================== claims on the rotation as a whole

\* No other call is in flight on the token call c was given.
AloneOnToken(c) ==
    \A d \in Calls \ {c} : pc[d] \in {"idle", "done"} \/ req[d] # req[c]

\* C35 (as claimed): a RefreshAccessToken call on a correctly signed
\* refresh token whose record is present, unrevoked and unexpired when the
\* call reads it, with no other call in flight on that token and no storage
\* outage, never returns an error: it returns a new pair whose refresh
\* token is then valid in the store, however soon after issuance.
C35_ValidTokenAlwaysRefreshes ==
    [][\A c \in Calls :
          (/\ pc[c] \in {"validate", "touch", "revoke", "generate", "store"}
           /\ pc'[c] = "done"
           /\ pc[c] \in {"validate", "touch", "revoke"} => StoreValid(req[c])
           /\ AloneOnToken(c)
           /\ result'[c].err \notin StorageErrors)
          => /\ result'[c].ok
             /\ StoreValid(tokenPair[c].RefreshToken)'
      ]_vars


\* A refresh record without its last_used_at.
WithoutLastUsed(r) ==
    [token_hash |-> r.token_hash, user_id |-> r.user_id,
     expires_at |-> r.expires_at, revoked_at |-> r.revoked_at]

\* C36: no step RefreshAccessToken takes before its revoke step (the JWT
\* validation, the SELECT of the record, the last_used_at update and the
\* user-id comparison), whether the call goes on or fails there, revokes or
\* inserts or deletes a record: the set of refresh records and every
\* revoked_at are unchanged, and only last_used_at of the presented
\* token's record may change.
C36_FailureBeforeRevokeChangesNothing ==
    [][\A c \in Calls :
          (pc[c] \in {"idle", "validate", "touch"} /\ pc'[c] # pc[c]) =>
              /\ {WithoutLastUsed(r) : r \in refresh_tokens'} =
                     {WithoutLastUsed(r) : r \in refresh_tokens}
              /\ Cardinality(refresh_tokens') = Cardinality(refresh_tokens)
              /\ \A r \in refresh_tokens :
                     r.token_hash # hashToken(req'[c]) => r \in refresh_tokens'
      ]_vars

\* C36 witness: a call was refused before its revoke step (here at the JWT
\* validation) and the record of the token it was given is there, unrevoked,
\* beside another record.
C36_Witness ==
    \E c \in Calls :
        /\ Done(c) /\ ~result[c].ok
        /\ result[c].step \in {"jwt", "validate", "mismatch"}
        /\ result[c].err \notin StorageErrors
        /\ RowOf(req[c]) # {} /\ ~IsRevokedRow(req[c])
        /\ Cardinality(refresh_tokens) > 1


\* C37 (as claimed): from the return of RevokeAllUserTokens(u) until u
\* signs in again no refresh token of u is valid in the durable store,
\* whatever RefreshAccessToken calls for u were in flight at the time.
C37_NothingValidAfterRevokeAll ==
    \A u \in revokedAll :
        \A r \in refresh_tokens :
            r.user_id = u => (r.revoked_at # NULL \/ now > r.expires_at)

====
